---- MODULE Spec2Model ----
(***************************************************************************)
(* Seasonal forecasting engine of the Exora climate forecaster             *)
(* (pages/WeatherPredictor.jsx): generateForecast, generateTimeSeriesData  *)
(* and generateNormalDistribution, modelled over exact arithmetic, and the *)
(* component around them: its inputs, the debounced recompute effect and   *)
(* fetchWeatherForecast.                                                   *)
(*                                                                         *)
(* A JavaScript number is modelled as one of NaN, +Infinity, -Infinity or  *)
(* a finite number a + b*sqrt(c) with a, b, c rational (c >= 0), which is  *)
(* closed under every operation the engine applies to the results of one   *)
(* Math.sqrt call. Rounding of IEEE doubles is not modelled.               *)
(***************************************************************************)
EXTENDS Integers, Sequences, FiniteSets, TLC

VARIABLES
    historicalData,   \* param -> (date string -> value): data.properties.parameter
    targetDate,       \* the "YYYY-MM-DD" string of the date input
    tzOffset,         \* host time zone, hours east of UTC
    predictions,      \* result of generateForecast: param -> Prediction
    seasonalData,     \* generateForecast's local seasonalData, per param
    pc,               \* "ready" before the call, "done" after it
    dMean, dStdDev, dSamples,   \* arguments of generateNormalDistribution
    dResult,          \* its result
    timeSeries,       \* result of generateTimeSeriesData: param -> TrendPoints
    \* the WeatherPredictor component (targetDate above is its date state)
    location,         \* state location: null or the chosen place
    variables,        \* state variables: array of selected variable ids
    forecast,         \* state forecast: null or the stored predictions
    loading,          \* state loading
    timeSeriesData,   \* state timeSeriesData: null or the stored trends
    timers,           \* pending setTimeout timers of the recompute effect
    effectTimer,      \* id of the timer the last effect run armed, 0 if none
    requests,         \* calls of fetchWeatherForecast: id -> its record
    now,              \* the clock, in milliseconds
    serial,           \* input changes so far: source of timer and object ids
    audit,            \* bookkeeping for the properties (refused counts the
                      \* calls that ended at the guard's error); no program
                      \* state depends on it
    \* the helpers around the engine
    currentYear,      \* new Date().getFullYear() at the time of a request
    requestRange,     \* the start and end parameters of the request URL
    rows,             \* downloadCSV's rows: an array of arrays of cell strings
    csvContent,       \* downloadCSV's csvContent: null or the text of the file
    exportToast,      \* the notification of the export handler
    statusInput,      \* a variable id and a value handed to the status functions
    statusShown       \* the texts they returned, <<>> before the call

engineVars == <<historicalData, tzOffset, predictions, seasonalData, pc,
                dMean, dStdDev, dSamples, dResult, timeSeries>>

appVars == <<location, variables, forecast, loading, timeSeriesData, timers,
             effectTimer, requests, now, serial, audit>>

statusVars == <<statusInput, statusShown>>
utilVars == <<currentYear, requestRange, rows, csvContent, exportToast,
              statusVars>>

vars == <<targetDate, engineVars, appVars, utilVars>>

\* null, and a value that is not null
null == [isNull |-> TRUE]
Some(x) == [isNull |-> FALSE, value |-> x]

\* the helpers before any call
StatusInitial ==
    /\ statusInput = <<>>
    /\ statusShown = <<>>

UtilInitial ==
    /\ currentYear = 0
    /\ requestRange = <<>>
    /\ rows = <<>>
    /\ csvContent = null
    /\ exportToast = "none"
    /\ StatusInitial

\* the component as constructed: the useState initial values, no timer, no
\* request
AppInitial ==
    /\ location = null
    /\ variables = <<"precipitation">>
    /\ forecast = null
    /\ loading = FALSE
    /\ timeSeriesData = null
    /\ timers = {}
    /\ effectTimer = 0
    /\ requests = <<>>
    /\ now = 0
    /\ serial = 0
    /\ audit = [changedAt |-> 0, cancelled |-> 0, forecastFrom |-> 0,
                trendFrom |-> 0, refused |-> 0]

(***************************************************************************)
(* Bounds                                                                  *)
(***************************************************************************)
MaxYearsAhead == 130 \* host clock years after 1970
MaxCellLen == 2      \* characters in an arbitrary CSV cell
MaxChanges == 3      \* input changes (location, date, variable) in one run
MaxCalls == 1        \* calls of fetchWeatherForecast from outside the timer
MaxTime == 1500      \* the clock stops here, in milliseconds
TickMs == 250        \* the step of the clock, in milliseconds
MaxEntries == 3      \* entries in one historical input, all params together
MaxWindow == 4       \* windowed observations of a two-year input
MaxSamples == 4      \* largest explicit sample count of a distribution
MaxMean == 2         \* |mean| of a distribution, in halves
MaxStdDev == 3       \* stdDev of a distribution, in halves

(***************************************************************************)
(* Rational numbers: [n, d] with d > 0 and gcd(n, d) = 1                   *)
(***************************************************************************)
RECURSIVE Gcd(_, _)
Gcd(x, y) == IF y = 0 THEN x ELSE Gcd(y, x % y)

IAbs(x) == IF x < 0 THEN -x ELSE x

R(n, d) ==
    LET s == IF d < 0 THEN -1 ELSE 1
        g == Gcd(IAbs(n), IAbs(d))
    IN  [n |-> (s * n) \div g, d |-> (s * d) \div g]

Zero == [n |-> 0, d |-> 1]
RInt(i) == [n |-> i, d |-> 1]
\* sums and products cancel common factors before they multiply
RAdd(x, y) ==
    LET g == Gcd(x.d, y.d)
    IN  R(x.n * (y.d \div g) + y.n * (x.d \div g), (x.d \div g) * y.d)
RNeg(x) == [n |-> -x.n, d |-> x.d]
RSub(x, y) == RAdd(x, RNeg(y))
RMul(x, y) ==
    LET g1 == Gcd(IAbs(x.n), y.d)
        g2 == Gcd(IAbs(y.n), x.d)
    IN  [n |-> (x.n \div g1) * (y.n \div g2), d |-> (x.d \div g2) * (y.d \div g1)]
RInv(x) == R(x.d, x.n)
RDiv(x, y) == RMul(x, RInv(y))
RSign(x) == IF x.n > 0 THEN 1 ELSE IF x.n < 0 THEN -1 ELSE 0
RLess(x, y) == RSign(RSub(x, y)) < 0
RLeq(x, y) == RSign(RSub(x, y)) <= 0

RECURSIVE ISqrtFrom(_, _)
ISqrtFrom(k, n) == IF (k + 1) * (k + 1) > n THEN k ELSE ISqrtFrom(k + 1, n)
ISqrt(n) == ISqrtFrom(0, n)
IsSquare(n) == ISqrt(n) * ISqrt(n) = n

(***************************************************************************)
(* JavaScript numbers                                                      *)
(***************************************************************************)
NaN == [k |-> "NaN", a |-> Zero, b |-> Zero, c |-> Zero]
Infinity == [k |-> "Inf", a |-> Zero, b |-> Zero, c |-> Zero]
NegInfinity == [k |-> "NegInf", a |-> Zero, b |-> Zero, c |-> Zero]
Surd(a, b, c) ==
    IF b = Zero \/ c = Zero
    THEN [k |-> "fin", a |-> a, b |-> Zero, c |-> Zero]
    ELSE [k |-> "fin", a |-> a, b |-> b, c |-> c]
Rat(r) == [k |-> "fin", a |-> r, b |-> Zero, c |-> Zero]
Num(i) == Rat(RInt(i))

IsFin(x) == x.k = "fin"
IsRational(x) == x.k = "fin" /\ x.b = Zero

\* the radicand two finite numbers share (one of them may be rational)
Radicand(x, y) == IF x.b = Zero THEN y.c ELSE x.c

\* sign of the finite number a + b*sqrt(c)
Sign(x) ==
    LET sa == RSign(x.a)
        sb == RSign(x.b)
        a2 == RMul(x.a, x.a)
        b2c == RMul(RMul(x.b, x.b), x.c)
    IN  IF sb = 0 THEN sa
        ELSE IF sa = 0 \/ sa = sb THEN sb
        ELSE IF a2 = b2c THEN 0
        ELSE IF RLess(b2c, a2) THEN sa ELSE sb

\* sign of any number but NaN
XSign(x) == IF x.k = "Inf" THEN 1 ELSE IF x.k = "NegInf" THEN -1 ELSE Sign(x)

JsNeg(x) ==
    IF x.k = "NaN" THEN NaN
    ELSE IF x.k = "Inf" THEN NegInfinity
    ELSE IF x.k = "NegInf" THEN Infinity
    ELSE Surd(RNeg(x.a), RNeg(x.b), x.c)

JsAdd(x, y) ==
    IF x.k = "NaN" \/ y.k = "NaN" THEN NaN
    ELSE IF IsFin(x) /\ IsFin(y)
         THEN IF x.b = Zero /\ y.b = Zero THEN Rat(RAdd(x.a, y.a))
              ELSE Surd(RAdd(x.a, y.a), RAdd(x.b, y.b), Radicand(x, y))
    ELSE IF IsFin(x) THEN y
    ELSE IF IsFin(y) THEN x
    ELSE IF x.k = y.k THEN x ELSE NaN

JsSub(x, y) == JsAdd(x, JsNeg(y))

JsMul(x, y) ==
    IF x.k = "NaN" \/ y.k = "NaN" THEN NaN
    ELSE IF IsFin(x) /\ IsFin(y)
         THEN IF x.b = Zero /\ y.b = Zero THEN Rat(RMul(x.a, y.a))
              ELSE
              LET c == Radicand(x, y)
              IN  Surd(RAdd(RMul(x.a, y.a), RMul(RMul(x.b, y.b), c)),
                       RAdd(RMul(x.a, y.b), RMul(x.b, y.a)), c)
    ELSE LET s == XSign(x) * XSign(y)
         IN  IF s = 0 THEN NaN ELSE IF s > 0 THEN Infinity ELSE NegInfinity

\* 1 / x for a finite x other than 0
Recip(x) ==
    LET den == RSub(RMul(x.a, x.a), RMul(RMul(x.b, x.b), x.c))
    IN  Surd(RDiv(x.a, den), RNeg(RDiv(x.b, den)), x.c)

JsDiv(x, y) ==
    IF x.k = "NaN" \/ y.k = "NaN" THEN NaN
    ELSE IF ~IsFin(y)
         THEN IF IsFin(x) THEN Num(0) ELSE NaN
    ELSE IF Sign(y) = 0
         THEN IF XSign(x) = 0 THEN NaN
              ELSE IF XSign(x) > 0 THEN Infinity ELSE NegInfinity
    ELSE IF ~IsFin(x)
         THEN IF XSign(x) * Sign(y) > 0 THEN Infinity ELSE NegInfinity
    ELSE IF x.b = Zero /\ y.b = Zero THEN Rat(RDiv(x.a, y.a))
    ELSE JsMul(x, Recip(y))

\* x < y; false when either is NaN
JsLess(x, y) ==
    IF x.k = "NaN" \/ y.k = "NaN" THEN FALSE
    ELSE IF x.k = "Inf" \/ y.k = "NegInf" THEN FALSE
    ELSE IF x.k = "NegInf" \/ y.k = "Inf" THEN TRUE
    ELSE Sign(JsSub(x, y)) < 0

JsLeq(x, y) ==
    IF x.k = "NaN" \/ y.k = "NaN" THEN FALSE ELSE ~JsLess(y, x)

MathAbs(x) ==
    IF x.k = "NaN" THEN NaN
    ELSE IF ~IsFin(x) THEN Infinity
    ELSE IF Sign(x) < 0 THEN JsNeg(x) ELSE x

MathMin(x, y) ==
    IF x.k = "NaN" \/ y.k = "NaN" THEN NaN ELSE IF JsLess(y, x) THEN y ELSE x

MathMax(x, y) ==
    IF x.k = "NaN" \/ y.k = "NaN" THEN NaN ELSE IF JsLess(x, y) THEN y ELSE x

\* Math.sqrt of a rational (the only argument the engine passes)
MathSqrt(x) ==
    IF x.k = "NaN" \/ x.k = "NegInf" THEN NaN
    ELSE IF x.k = "Inf" THEN Infinity
    ELSE IF Sign(x) < 0 THEN NaN
    ELSE IF IsSquare(x.a.n) /\ IsSquare(x.a.d)
         THEN Rat(R(ISqrt(x.a.n), ISqrt(x.a.d)))
    ELSE Surd(Zero, RInt(1), x.a)

MathPow2(x) == JsMul(x, x)

\* the value null of a JSON response, and the number an arithmetic operator or
\* isNaN makes of an observation: null becomes 0, a number stays itself
Null == [k |-> "null", a |-> Zero, b |-> Zero, c |-> Zero]
NumberOf(v) == IF v = Null THEN Num(0) ELSE v

\* the global isNaN
isNaN(x) == NumberOf(x).k = "NaN"

(***************************************************************************)
(* Strings are sequences of one-character strings                          *)
(***************************************************************************)
Digits == <<"0", "1", "2", "3", "4", "5", "6", "7", "8", "9">>
IsDigit(ch) == \E i \in 1..10 : Digits[i] = ch
DigitValue(ch) == (CHOOSE i \in 1..10 : Digits[i] = ch) - 1

\* String.prototype.substring(from, to), 0-based, end exclusive
substring(s, from, to) ==
    LET lo == IF from > Len(s) THEN Len(s) ELSE from
        hi == IF to > Len(s) THEN Len(s) ELSE to
    IN  SubSeq(s, lo + 1, hi)

AllDigits(s) == \A i \in 1..Len(s) : IsDigit(s[i])

RECURSIVE DigitsValue(_)
DigitsValue(s) ==
    IF Len(s) = 0 THEN 0
    ELSE 10 * DigitsValue(SubSeq(s, 1, Len(s) - 1)) + DigitValue(s[Len(s)])

\* ToNumber of a string: [nan |-> TRUE] or the integer it denotes ("" is 0)
ToNumber(s) ==
    IF AllDigits(s) THEN [nan |-> FALSE, v |-> DigitsValue(s)]
    ELSE [nan |-> TRUE, v |-> 0]

(***************************************************************************)
(* Date objects: [valid, y, m, d] in local time, m zero-based              *)
(***************************************************************************)
IsLeap(y) == (y % 4 = 0 /\ y % 100 # 0) \/ y % 400 = 0

DaysInMonth(y, m) ==
    IF m = 1 THEN (IF IsLeap(y) THEN 29 ELSE 28)
    ELSE IF m \in {3, 5, 8, 10} THEN 30 ELSE 31

InvalidDate == [valid |-> FALSE, y |-> 0, m |-> 0, d |-> 0]

\* MakeDay: carries a day outside its month into the neighbouring months
RECURSIVE NormalizeDay(_, _, _)
NormalizeDay(y, m, d) ==
    IF d < 1
    THEN LET pm == IF m = 0 THEN 11 ELSE m - 1
             py == IF m = 0 THEN y - 1 ELSE y
         IN  NormalizeDay(py, pm, d + DaysInMonth(py, pm))
    ELSE IF d > DaysInMonth(y, m)
    THEN LET nm == IF m = 11 THEN 0 ELSE m + 1
             ny == IF m = 11 THEN y + 1 ELSE y
         IN  NormalizeDay(ny, nm, d - DaysInMonth(y, m))
    ELSE [valid |-> TRUE, y |-> y, m |-> m, d |-> d]

\* floor division and modulus for a possibly negative month
FloorDiv(x, n) == IF x >= 0 THEN x \div n ELSE -((-x + n - 1) \div n)

\* new Date(year, monthIndex, day) with numeric arguments (local time)
MakeDate(year, monthIndex, day) ==
    IF year.nan \/ monthIndex.nan \/ day.nan THEN InvalidDate
    ELSE LET yy == IF year.v >= 0 /\ year.v <= 99 THEN 1900 + year.v ELSE year.v
             y == yy + FloorDiv(monthIndex.v, 12)
             m == monthIndex.v - 12 * FloorDiv(monthIndex.v, 12)
         IN  NormalizeDay(y, m, day.v)

\* number - 1, as in date.substring(4, 6) - 1
MinusOne(x) == [nan |-> x.nan, v |-> IF x.nan THEN 0 ELSE x.v - 1]

\* new Date(date.substring(0, 4), date.substring(4, 6) - 1, date.substring(6, 8))
EntryDate(date) ==
    MakeDate(ToNumber(substring(date, 0, 4)),
             MinusOne(ToNumber(substring(date, 4, 6))),
             ToNumber(substring(date, 6, 8)))

\* new Date("YYYY-MM-DD"): midnight UTC of that day, seen in local time. West
\* of UTC the local calendar day is the previous one.
TargetDateObject(str, tz) ==
    IF Len(str) # 10 \/ str[5] # "-" \/ str[8] # "-"
       \/ ~AllDigits(substring(str, 0, 4))
       \/ ~AllDigits(substring(str, 5, 7))
       \/ ~AllDigits(substring(str, 8, 10))
    THEN InvalidDate
    ELSE LET y == DigitsValue(substring(str, 0, 4))
             m == DigitsValue(substring(str, 5, 7))
             d == DigitsValue(substring(str, 8, 10))
         IN  IF m < 1 \/ m > 12 \/ d < 1 \/ d > DaysInMonth(y, m - 1)
             THEN InvalidDate
             ELSE NormalizeDay(y, m - 1, IF tz < 0 THEN d - 1 ELSE d)

\* days from 0000-03-01 style day count: only differences are used
RECURSIVE DaysBeforeMonth(_, _)
DaysBeforeMonth(y, m) ==
    IF m = 0 THEN 0 ELSE DaysBeforeMonth(y, m - 1) + DaysInMonth(y, m - 1)

\* the time value of a valid Date, in days
TimeValue(date) ==
    365 * date.y + (date.y - 1) \div 4 - (date.y - 1) \div 100
    + (date.y - 1) \div 400 + DaysBeforeMonth(date.y, date.m) + date.d

\* a.date - b.date as the sort comparator sees it: NaN counts as 0
DateDiff(a, b) ==
    IF a.valid /\ b.valid THEN TimeValue(a) - TimeValue(b) ELSE 0

\* getMonth() === getMonth(): NaN is equal to nothing
SameMonth(a, b) == a.valid /\ b.valid /\ a.m = b.m

\* Math.abs(a.getDate() - b.getDate())
DayDiff(a, b) ==
    IF a.valid /\ b.valid THEN Num(IAbs(a.d - b.d)) ELSE NaN

(***************************************************************************)
(* Arrays                                                                  *)
(***************************************************************************)
\* Array.prototype.sort((a, b) => b.date - a.date): stable, most recent first
RECURSIVE InsertByDateDesc(_, _)
InsertByDateDesc(sorted, x) ==
    IF Len(sorted) = 0 THEN <<x>>
    ELSE IF DateDiff(x.date, sorted[Len(sorted)].date) <= 0 THEN Append(sorted, x)
    ELSE Append(InsertByDateDesc(SubSeq(sorted, 1, Len(sorted) - 1), x),
                sorted[Len(sorted)])

\* variant: oldest first
RECURSIVE InsertByDateAsc(_, _)
InsertByDateAsc(sorted, x) ==
    IF Len(sorted) = 0 THEN <<x>>
    ELSE IF DateDiff(sorted[Len(sorted)].date, x.date) <= 0 THEN Append(sorted, x)
    ELSE Append(InsertByDateAsc(SubSeq(sorted, 1, Len(sorted) - 1), x),
                sorted[Len(sorted)])

RECURSIVE SortByDateAsc(_)
SortByDateAsc(seq) ==
    IF Len(seq) = 0 THEN <<>>
    ELSE InsertByDateAsc(SortByDateAsc(SubSeq(seq, 1, Len(seq) - 1)),
                         seq[Len(seq)])

RECURSIVE SortByDateDesc(_)
SortByDateDesc(seq) ==
    IF Len(seq) = 0 THEN <<>>
    ELSE InsertByDateDesc(SortByDateDesc(SubSeq(seq, 1, Len(seq) - 1)),
                          seq[Len(seq)])

\* a canonical array index: a key Object.entries enumerates in numeric order
IsArrayIndex(key) ==
    /\ Len(key) >= 1
    /\ AllDigits(key)
    /\ Len(key) = 1 \/ key[1] # "0"

\* Object.entries: the array-index keys (every YYYYMMDD key is one) in ascending
\* numeric order, then the other keys in insertion order. The order of
\* insertion is not part of the model, whose inputs hold at most one key that
\* is not an array index.
RECURSIVE ObjectEntries(_)
ObjectEntries(obj) ==
    IF DOMAIN obj = {} THEN <<>>
    ELSE LET named == {key \in DOMAIN obj : ~IsArrayIndex(key)}
             last == IF named # {} THEN CHOOSE key \in named : TRUE
                     ELSE CHOOSE key \in DOMAIN obj :
                              \A other \in DOMAIN obj :
                                  DigitsValue(other) <= DigitsValue(key)
             rest == [key \in DOMAIN obj \ {last} |-> obj[key]]
         IN  Append(ObjectEntries(rest), <<last, obj[last]>>)

(***************************************************************************)
(* generateNormalDistribution                                              *)
(***************************************************************************)
DefaultSamples == 50

\* (1 / (stdDev * Math.sqrt(2 * Math.PI))) * Math.exp(exponent) * 100: the
\* value of a finite density is kept symbolic, as its exponent and stdDev
Probability(exponent, stdDev) ==
    LET coef == JsDiv(Num(1), stdDev)
    IN  IF isNaN(exponent) \/ isNaN(coef)
        THEN [k |-> "NaN", e |-> NaN, s |-> NaN]
        ELSE [k |-> "density", e |-> exponent, s |-> stdDev]

\* the body of the for loop, for index i
DistributionPoint(mean, stdDev, range, step, i) ==
    LET x == JsAdd(JsSub(mean, JsDiv(range, Num(2))), JsMul(Num(i), step))
        exponent == JsDiv(JsNeg(MathPow2(JsSub(x, mean))),
                          JsMul(Num(2), MathPow2(stdDev)))
    IN  [value |-> x, probability |-> Probability(exponent, stdDev)]

\* variant: the step of a grid that includes both end points
generateNormalDistributionInclusive(mean, stdDev, samples) ==
    LET range == JsMul(stdDev, Num(4))
        step == JsDiv(range, Num(samples - 1))
    IN  [idx \in 1..samples |->
            DistributionPoint(mean, stdDev, range, step, idx - 1)]

generateNormalDistribution(mean, stdDev, samples) ==
    LET range == JsMul(stdDev, Num(4))
        step == JsDiv(range, Num(samples))
    IN  [idx \in 1..samples |->
            DistributionPoint(mean, stdDev, range, step, idx - 1)]

(***************************************************************************)
(* generateForecast                                                        *)
(***************************************************************************)
\* Object.entries(historicalData[param]).map(...).filter(!isNaN(value)); the
\* field key (the entry's date string) is kept for reference only
RECURSIVE ValidItems(_)
ValidItems(entries) ==
    IF Len(entries) = 0 THEN <<>>
    ELSE LET e == Head(entries)
             item == [key |-> e[1], date |-> EntryDate(e[1]), value |-> e[2]]
             rest == ValidItems(Tail(entries))
         IN  IF ~isNaN(item.value) THEN <<item>> \o rest ELSE rest

\* variant: the day test alone, without the month test
InSeasonAnyMonth(item, target) ==
    JsLeq(DayDiff(item.date, target), Num(7))

\* item.month === targetMonth && Math.abs(item.day - targetDay) <= 7
InSeason(item, target) ==
    SameMonth(item.date, target) /\ JsLeq(DayDiff(item.date, target), Num(7))

RECURSIVE SeasonalFilter(_, _)
SeasonalFilter(values, target) ==
    IF Len(values) = 0 THEN <<>>
    ELSE LET rest == SeasonalFilter(Tail(values), target)
         IN  IF InSeason(Head(values), target)
             THEN <<Head(values)>> \o rest ELSE rest

\* variant: geometric instead of harmonic decay
WeightGeometric(idx) == JsDiv(Num(1), Num(2 ^ idx))

\* weight of the observation at index idx of the sorted window
Weight(idx) == JsDiv(Num(1), Num(idx + 1))

\* the forEach loop: sums over sorted[1..n], index idx = position - 1
RECURSIVE WeightedSum(_, _)
WeightedSum(sorted, n) ==
    IF n = 0 THEN Num(0)
    ELSE JsAdd(WeightedSum(sorted, n - 1), JsMul(NumberOf(sorted[n].value), Weight(n - 1)))

\* variant: the weighted sum is divided by the number of observations
WeightSumAsCount(n) == Num(n)

RECURSIVE WeightSum(_)
WeightSum(n) ==
    IF n = 0 THEN Num(0) ELSE JsAdd(WeightSum(n - 1), Weight(n - 1))

\* seasonalData.reduce((sum, item) => sum + Math.pow(item.value - predicted, 2), 0)
RECURSIVE SquaredDeviations(_, _, _)
SquaredDeviations(items, n, predicted) ==
    IF n = 0 THEN Num(0)
    ELSE JsAdd(SquaredDeviations(items, n - 1, predicted),
               MathPow2(JsSub(NumberOf(items[n].value), predicted)))

\* variant: the sample variance, dividing by length - 1
VarianceSample(items, predicted) ==
    JsDiv(SquaredDeviations(items, Len(items), predicted), Num(Len(items) - 1))

\* seasonalData.reduce(...) / seasonalData.length
Variance(items, predicted) ==
    JsDiv(SquaredDeviations(items, Len(items), predicted), Num(Len(items)))

\* variant: without the Math.max(0, ...) floor
ConfidenceNoFloor(stdDev, predicted) ==
    MathMin(Num(100),
            JsSub(Num(100), JsMul(JsDiv(stdDev, MathAbs(predicted)), Num(50))))

\* variant: a zero prediction short-cut to full confidence
ConfidenceZeroMeanFull(stdDev, predicted) ==
    IF predicted = Num(0) THEN Num(100)
    ELSE MathMax(Num(0),
                 MathMin(Num(100),
                         JsSub(Num(100),
                               JsMul(JsDiv(stdDev, MathAbs(predicted)),
                                     Num(50)))))

Confidence(stdDev, predicted) ==
    MathMax(Num(0),
            MathMin(Num(100),
                    JsSub(Num(100),
                          JsMul(JsDiv(stdDev, MathAbs(predicted)), Num(50)))))

\* variant: a band of two standard deviations
RangeTwoSigma(predicted, stdDev) ==
    [min |-> JsSub(predicted, JsMul(Num(2), stdDev)),
     max |-> JsAdd(predicted, JsMul(Num(2), stdDev))]

Range(predicted, stdDev) ==
    [min |-> JsSub(predicted, stdDev), max |-> JsAdd(predicted, stdDev)]

\* the prediction of a non-empty window, already sorted most recent first
Predict(sorted) ==
    LET n == Len(sorted)
        predicted == JsDiv(WeightedSum(sorted, n), WeightSum(n))
        variance == Variance(sorted, predicted)
        stdDev == MathSqrt(variance)
    IN  [value |-> predicted,
         confidence |-> Confidence(stdDev, predicted),
         range |-> Range(predicted, stdDev),
         stdDev |-> stdDev,
         samples |-> n,
         distribution |-> generateNormalDistribution(predicted, stdDev,
                                                     DefaultSamples)]

\* the seasonal window of one param as the function leaves it: sorted in
\* place when it is not empty
SeasonalWindow(series, target) ==
    SortByDateDesc(SeasonalFilter(ValidItems(ObjectEntries(series)), target))

\* the entries of every param, one param after the other
RECURSIVE AllEntries(_)
AllEntries(historical) ==
    IF DOMAIN historical = {} THEN <<>>
    ELSE LET param == CHOOSE p \in DOMAIN historical : TRUE
         IN  ObjectEntries(historical[param]) \o
             AllEntries([p \in DOMAIN historical \ {param} |-> historical[p]])

\* variant: one window shared by all params
WindowsShared(historical, date, tz) ==
    LET target == TargetDateObject(date, tz)
        shared == SortByDateDesc(SeasonalFilter(ValidItems(AllEntries(historical)),
                                                target))
    IN  [param \in DOMAIN historical |-> shared]

WindowsOf(historical, date, tz) ==
    LET target == TargetDateObject(date, tz)
    IN  [param \in DOMAIN historical |-> SeasonalWindow(historical[param], target)]

\* variant: an entry for every param, also for an empty window
generateForecastEveryParam(historical, date, tz) ==
    LET windows == WindowsOf(historical, date, tz)
    IN  [param \in DOMAIN historical |-> Predict(windows[param])]

generateForecast(historical, date, tz) ==
    LET windows == WindowsOf(historical, date, tz)
        emitted == {param \in DOMAIN historical : Len(windows[param]) > 0}
    IN  [param \in emitted |-> Predict(windows[param])]

(***************************************************************************)
(* generateTimeSeriesData                                                  *)
(***************************************************************************)
\* .filter(item => !isNaN(item.value) && item.date.getMonth() === targetMonth)
\* applied to items that already passed the !isNaN half (ValidItems)
RECURSIVE MonthFilter(_, _)
MonthFilter(values, target) ==
    IF Len(values) = 0 THEN <<>>
    ELSE LET rest == MonthFilter(Tail(values), target)
         IN  IF SameMonth(Head(values).date, target)
             THEN <<Head(values)>> \o rest ELSE rest

\* .sort((a, b) => a.date - b.date): stable, oldest first
RECURSIVE SortEntriesByDate(_)
SortEntriesByDate(seq) ==
    IF Len(seq) = 0 THEN <<>>
    ELSE InsertByDateAsc(SortEntriesByDate(SubSeq(seq, 1, Len(seq) - 1)),
                         seq[Len(seq)])

\* variant: the +/-7-day seasonal window instead of the whole month
SeasonalEntries(series, target) ==
    SortEntriesByDate(SeasonalFilter(ValidItems(ObjectEntries(series)), target))

\* the const entries of one param
MonthEntries(series, target) ==
    SortEntriesByDate(MonthFilter(ValidItems(ObjectEntries(series)), target))

\* yearlyData[year]: the values pushed for that year, in the order of entries
RECURSIVE YearlyValues(_, _)
YearlyValues(entries, year) ==
    IF Len(entries) = 0 THEN <<>>
    ELSE LET rest == YearlyValues(Tail(entries), year)
         IN  IF Head(entries).date.y = year
             THEN <<Head(entries).value>> \o rest ELSE rest

\* values.reduce((a, b) => a + b, 0)
RECURSIVE ReduceSum(_)
ReduceSum(values) ==
    IF Len(values) = 0 THEN Num(0)
    ELSE JsAdd(ReduceSum(SubSeq(values, 1, Len(values) - 1)),
               NumberOf(values[Len(values)]))

\* variant: a year's total instead of its mean
TrendPointTotal(entries, year) ==
    [year |-> year, value |-> ReduceSum(YearlyValues(entries, year))]

\* { year: parseInt(year), value: avg }
TrendPoint(entries, year) ==
    LET values == YearlyValues(entries, year)
    IN  [year |-> year, value |-> JsDiv(ReduceSum(values), Num(Len(values)))]

\* Object.keys(yearlyData).forEach(...) followed by .sort((a, b) => a.year -
\* b.year): the keys are years, enumerated and then sorted in ascending order
RECURSIVE MonthlyData(_, _)
MonthlyData(entries, years) ==
    IF years = {} THEN <<>>
    ELSE LET last == CHOOSE y \in years : \A other \in years : other <= y
         IN  Append(MonthlyData(entries, years \ {last}),
                    TrendPoint(entries, last))

generateTimeSeriesData(historical, date, tz) ==
    LET target == TargetDateObject(date, tz)
    IN  [param \in DOMAIN historical |->
            LET entries == MonthEntries(historical[param], target)
            IN  MonthlyData(entries,
                            {entries[i].date.y : i \in DOMAIN entries})]

(***************************************************************************)
(* Inputs                                                                  *)
(***************************************************************************)
Chr(i) == Digits[i + 1]
Pad2(i) == <<Chr(i \div 10), Chr(i % 10)>>
Pad4(i) == <<Chr(i \div 1000), Chr((i \div 100) % 10), Chr((i \div 10) % 10),
             Chr(i % 10)>>
\* the provider's YYYYMMDD key and the date input's YYYY-MM-DD value
DateKey(y, m, d) == Pad4(y) \o Pad2(m) \o Pad2(d)
IsoDate(y, m, d) == Pad4(y) \o <<"-">> \o Pad2(m) \o <<"-">> \o Pad2(d)

\* the fields of a YYYYMMDD key
KeyYear(key) == DigitsValue(substring(key, 0, 4))
KeyMonth(key) == DigitsValue(substring(key, 4, 6))
KeyDay(key) == DigitsValue(substring(key, 6, 8))

Params == {"PRECTOTCORR", "T2M"}

\* calendar days around a year's end: December 23 is 8 days from December 31
\* and 7 from December 30; January 31 shares the day but not the month
EntryDates(param) ==
    IF param = "PRECTOTCORR"
    THEN {DateKey(2022, 12, 23), DateKey(2022, 12, 31), DateKey(2023, 1, 31),
          DateKey(2023, 12, 31)}
    ELSE {DateKey(2024, 1, 1)}

TargetDates == {IsoDate(2024, 12, 31), IsoDate(2025, 1, 1)}

TimeZones == {-5, 0, 5}

\* observations; NaN stands for any value the isNaN filter rejects
FiniteValues == {Num(-1), Num(0), Num(2)}
Values == FiniteValues \cup {NaN}

Cells == {c \in Params \X UNION {EntryDates(param) : param \in Params} :
            c[2] \in EntryDates(c[1])}

HistoricalOf(cells, vals) ==
    [param \in Params |->
        [key \in {c[2] : c \in {x \in cells : x[1] = param}} |->
            vals[<<param, key>>]]]

NoArg == [given |-> FALSE, n |-> 0]

InitForecast ==
    /\ \E cells \in {cs \in SUBSET Cells : Cardinality(cs) <= MaxEntries} :
         \E vals \in [cells -> Values] :
            historicalData = HistoricalOf(cells, vals)
    /\ targetDate \in TargetDates
    /\ tzOffset \in TimeZones
    /\ predictions = <<>>
    /\ seasonalData = [param \in Params |-> <<>>]
    /\ pc = "ready"
    /\ dMean = Num(0)
    /\ dStdDev = Num(0)
    /\ dSamples = NoArg
    /\ dResult = <<>>
    /\ timeSeries = <<>>
    /\ AppInitial
    /\ UtilInitial

\* const predictions = generateForecast(historical, targetDate)
GenerateForecast ==
    /\ pc = "ready"
    /\ predictions' = generateForecast(historicalData, targetDate, tzOffset)
    /\ seasonalData' = WindowsOf(historicalData, targetDate, tzOffset)
    /\ pc' = "done"
    /\ UNCHANGED <<historicalData, targetDate, tzOffset,
                   dMean, dStdDev, dSamples, dResult, timeSeries>>
    /\ UNCHANGED appVars
    /\ UNCHANGED utilVars

NextForecast == GenerateForecast

SpecForecast == InitForecast /\ [][NextForecast]_vars

\* Inputs of the two-year scenario: the last days of December of two
\* consecutive years, the older year all a, the more recent year all b
YearEndDays == {31 - i : i \in 0..(MaxWindow - 2)}

TwoYearSeries(oldDays, newDays, a, b) ==
    [key \in {DateKey(2022, 12, d) : d \in oldDays}
             \cup {DateKey(2023, 12, d) : d \in newDays} |->
        IF KeyYear(key) = 2022 THEN a ELSE b]

InitTwoYears ==
    /\ \E oldDays \in SUBSET YearEndDays \ {{}} :
         \E newDays \in SUBSET YearEndDays \ {{}} :
            \E a \in FiniteValues : \E b \in FiniteValues :
                /\ Cardinality(oldDays) + Cardinality(newDays) <= MaxWindow
                /\ historicalData =
                      [param \in Params |->
                          IF param = "PRECTOTCORR"
                          THEN TwoYearSeries(oldDays, newDays, a, b)
                          ELSE <<>>]
    /\ targetDate = IsoDate(2024, 12, 31)
    /\ tzOffset \in TimeZones
    /\ predictions = <<>>
    /\ seasonalData = [param \in Params |-> <<>>]
    /\ pc = "ready"
    /\ dMean = Num(0)
    /\ dStdDev = Num(0)
    /\ dSamples = NoArg
    /\ dResult = <<>>
    /\ timeSeries = <<>>
    /\ AppInitial
    /\ UtilInitial

SpecTwoYears == InitTwoYears /\ [][NextForecast]_vars

Halves(lo, hi) == {Rat(R(i, 2)) : i \in lo..hi}

InitDistribution ==
    /\ historicalData = [param \in Params |-> <<>>]
    /\ targetDate = IsoDate(2024, 12, 31)
    /\ tzOffset = 0
    /\ predictions = <<>>
    /\ seasonalData = [param \in Params |-> <<>>]
    /\ pc = "ready"
    /\ dMean \in Halves(-MaxMean, MaxMean)
    /\ dStdDev \in Halves(0, MaxStdDev)
    /\ dSamples \in {NoArg} \cup {[given |-> TRUE, n |-> i] : i \in 0..MaxSamples}
    /\ dResult = <<>>
    /\ timeSeries = <<>>
    /\ AppInitial
    /\ UtilInitial

\* a call generateNormalDistribution(mean, stdDev[, samples])
CallGenerateNormalDistribution ==
    /\ pc = "ready"
    /\ dResult' = generateNormalDistribution(dMean, dStdDev,
                      IF dSamples.given THEN dSamples.n ELSE DefaultSamples)
    /\ pc' = "done"
    /\ UNCHANGED <<historicalData, targetDate, tzOffset, predictions,
                   seasonalData, dMean, dStdDev, dSamples, timeSeries>>
    /\ UNCHANGED appVars
    /\ UNCHANGED utilVars

NextDistribution == CallGenerateNormalDistribution

SpecDistribution == InitDistribution /\ [][NextDistribution]_vars

\* const timeSeries = generateTimeSeriesData(historical, targetDate)
GenerateTimeSeriesData ==
    /\ pc = "ready"
    /\ timeSeries' = generateTimeSeriesData(historicalData, targetDate, tzOffset)
    /\ pc' = "done"
    /\ UNCHANGED <<historicalData, targetDate, tzOffset, predictions,
                   seasonalData, dMean, dStdDev, dSamples, dResult>>
    /\ UNCHANGED appVars
    /\ UNCHANGED utilVars

NextTrend == GenerateTimeSeriesData

SpecTrend == InitForecast /\ [][NextTrend]_vars

\* Inputs with values that are not finite numbers: JSON.parse gives null for
\* null and +/-Infinity for a literal beyond the double range such as 1e999
NonFiniteValues == {NaN, Infinity, NegInfinity, Null}

InitNonFinite ==
    /\ \E cells \in {cs \in SUBSET Cells : Cardinality(cs) <= MaxEntries} :
         \E vals \in [cells -> NonFiniteValues \cup {Num(2)}] :
            historicalData = HistoricalOf(cells, vals)
    /\ targetDate \in TargetDates
    /\ tzOffset \in TimeZones
    /\ predictions = <<>>
    /\ seasonalData = [param \in Params |-> <<>>]
    /\ pc = "ready"
    /\ dMean = Num(0)
    /\ dStdDev = Num(0)
    /\ dSamples = NoArg
    /\ dResult = <<>>
    /\ timeSeries = <<>>
    /\ AppInitial
    /\ UtilInitial

\* Inputs with date strings that denote no calendar date: month 13, month 00,
\* December 32, February 30, a string one character short, a string with
\* letters; next to them one well-formed key per param
MalformedKeys ==
    {DateKey(2023, 13, 1), DateKey(2023, 0, 31), DateKey(2023, 12, 32),
     DateKey(2023, 2, 30), <<"2", "0", "2", "3", "1", "2", "3">>,
     <<"2", "0", "2", "3", "A", "B", "3", "1">>}

MalformedCells ==
    ({"PRECTOTCORR"} \X (MalformedKeys \cup {DateKey(2023, 12, 31)}))
    \cup {<<"T2M", DateKey(2024, 1, 1)>>}

MalformedTargets == TargetDates \cup {IsoDate(2024, 3, 2)}

InitMalformed ==
    /\ \E cells \in {cs \in SUBSET MalformedCells : Cardinality(cs) <= MaxEntries} :
         \E vals \in [cells -> {Num(-1), Num(2)}] :
            historicalData = HistoricalOf(cells, vals)
    /\ targetDate \in MalformedTargets
    /\ tzOffset \in TimeZones
    /\ predictions = <<>>
    /\ seasonalData = [param \in Params |-> <<>>]
    /\ pc = "ready"
    /\ dMean = Num(0)
    /\ dStdDev = Num(0)
    /\ dSamples = NoArg
    /\ dResult = <<>>
    /\ timeSeries = <<>>
    /\ AppInitial
    /\ UtilInitial

\* variant: the calls delete the rejected entries from the object passed in
GenerateBothCleaningInput ==
    /\ pc = "ready"
    /\ predictions' = generateForecast(historicalData, targetDate, tzOffset)
    /\ seasonalData' = WindowsOf(historicalData, targetDate, tzOffset)
    /\ timeSeries' = generateTimeSeriesData(historicalData, targetDate, tzOffset)
    /\ historicalData' =
          [param \in DOMAIN historicalData |->
              [key \in {k \in DOMAIN historicalData[param] :
                           ~isNaN(historicalData[param][k])} |->
                  historicalData[param][key]]]
    /\ pc' = "done"
    /\ UNCHANGED <<targetDate, tzOffset, dMean, dStdDev, dSamples, dResult>>
    /\ UNCHANGED appVars
    /\ UNCHANGED utilVars

\* the two calls fetchWeatherForecast makes on one response:
\*   const predictions = generateForecast(historical, targetDate);
\*   const timeSeries = generateTimeSeriesData(historical, targetDate);
GenerateBoth ==
    /\ pc = "ready"
    /\ predictions' = generateForecast(historicalData, targetDate, tzOffset)
    /\ seasonalData' = WindowsOf(historicalData, targetDate, tzOffset)
    /\ timeSeries' = generateTimeSeriesData(historicalData, targetDate, tzOffset)
    /\ pc' = "done"
    /\ UNCHANGED <<historicalData, targetDate, tzOffset,
                   dMean, dStdDev, dSamples, dResult>>
    /\ UNCHANGED appVars
    /\ UNCHANGED utilVars

NextEngine == GenerateBoth

SpecEngine == InitForecast /\ [][NextEngine]_vars

SpecNonFinite == InitNonFinite /\ [][NextEngine]_vars

SpecMalformed == InitMalformed /\ [][NextEngine]_vars

\* the same two calls made a second time on the same object and target: the
\* functions hold only const locals, so nothing but the arguments is read
GenerateAgain ==
    /\ pc = "done"
    /\ predictions' = generateForecast(historicalData, targetDate, tzOffset)
    /\ seasonalData' = WindowsOf(historicalData, targetDate, tzOffset)
    /\ timeSeries' = generateTimeSeriesData(historicalData, targetDate, tzOffset)
    /\ pc' = "again"
    /\ UNCHANGED <<historicalData, targetDate, tzOffset,
                   dMean, dStdDev, dSamples, dResult>>
    /\ UNCHANGED appVars
    /\ UNCHANGED utilVars

NextTwice == GenerateBoth \/ GenerateAgain

SpecTwice == InitForecast /\ [][NextTwice]_vars

(***************************************************************************)
(* The WeatherPredictor component: inputs, the debounced recompute effect  *)
(* and fetchWeatherForecast                                                *)
(***************************************************************************)
DebounceMs == 500

\* weatherVars, the first two of its five rows: id -> param
weatherVars == [precipitation |-> "PRECTOTCORR", temperature |-> "T2M"]

Places == {"place"}
AppDates == {IsoDate(2024, 12, 31), IsoDate(2024, 6, 15)}

\* prev.includes(id)
Includes(array, id) == \E i \in DOMAIN array : array[i] = id

\* prev.filter(v => v !== id)
RECURSIVE Without(_, _)
Without(array, id) ==
    IF Len(array) = 0 THEN <<>>
    ELSE IF Head(array) = id THEN Without(Tail(array), id)
    ELSE <<Head(array)>> \o Without(Tail(array), id)

\* variant: the selected variables are not looked at
InputsPresentButVariables(loc, date, ids) == loc # null /\ Len(date) > 0

\* location && targetDate && variables.length > 0
InputsPresent(loc, date, ids) == loc # null /\ Len(date) > 0 /\ Len(ids) > 0

\* variant: the effect returns no cleanup
NoCleanup(pending, armed) == pending

\* return () => clearTimeout(timer), run before the effect runs again;
\* clearing a timer that has fired, or none, does nothing
Cleanup(pending, armed) == {t \in pending : t.id # armed}

\* the effect of lines 893-898 after a render in which location, targetDate or
\* variables changed: the previous cleanup, then the body with the new values
RunEffect(loc, date, ids) ==
    /\ timers' =
          Cleanup(timers, effectTimer) \cup
          (IF InputsPresent(loc, date, ids)
           THEN {[id |-> serial + 1, deadline |-> now + DebounceMs,
                  location |-> loc, targetDate |-> date, variables |-> ids]}
           ELSE {})
    /\ effectTimer' = IF InputsPresent(loc, date, ids) THEN serial + 1 ELSE 0
    /\ serial' = serial + 1
    /\ audit' = [audit EXCEPT
                    !.changedAt = now,
                    !.cancelled = @ + Cardinality(timers \
                                                  Cleanup(timers, effectTimer))]

\* the map click handler: setLocation(e.latlng), a new object at every click
SetLocation(place) ==
    /\ serial < MaxChanges
    /\ location' = [isNull |-> FALSE, value |-> place, object |-> serial + 1]
    /\ RunEffect(location', targetDate, variables)
    /\ UNCHANGED <<targetDate, variables, forecast, loading, timeSeriesData,
                   requests, now, engineVars, utilVars>>

\* onChange={(e) => setTargetDate(e.target.value)}: fires on a changed value
SetTargetDate(date) ==
    /\ serial < MaxChanges
    /\ date # targetDate
    /\ targetDate' = date
    /\ RunEffect(location, date, variables)
    /\ UNCHANGED <<location, variables, forecast, loading, timeSeriesData,
                   requests, now, engineVars, utilVars>>

\* toggleVariable(id): a new array at every call
ToggleVariable(id) ==
    /\ serial < MaxChanges
    /\ variables' = IF Includes(variables, id) THEN Without(variables, id)
                    ELSE Append(variables, id)
    /\ RunEffect(location, targetDate, variables')
    /\ UNCHANGED <<location, targetDate, forecast, loading, timeSeriesData,
                   requests, now, engineVars, utilVars>>

\* time passes; a timer that is due may still fire later
Tick ==
    /\ now + TickMs <= MaxTime
    /\ now' = now + TickMs
    /\ UNCHANGED <<targetDate, location, variables, forecast, loading,
                   timeSeriesData, timers, effectTimer, requests, serial, audit,
                   engineVars, utilVars>>

\* fetchWeatherForecast of a render with the given location, targetDate and
\* variables, up to its first await (lines 181-203)
FetchWeatherForecast(loc, date, ids, timer) ==
    IF ~InputsPresent(loc, date, ids)
    THEN \* toast.error("Please select ..."); return
         /\ audit' = [audit EXCEPT !.refused = @ + 1]
         /\ UNCHANGED <<loading, forecast, requests>>
    ELSE \* setLoading(true); setForecast(null); ... await fetch(url)
         /\ loading' = TRUE
         /\ forecast' = null
         /\ requests' = Append(requests,
               [location |-> loc, targetDate |-> date,
                variables |-> ids, status |-> "pending",
                toast |-> "none", coreCalled |-> FALSE,
                timer |-> timer, startedAt |-> now, serialAt |-> serial,
                changedAt |-> audit.changedAt])
         /\ audit' = [audit EXCEPT !.forecastFrom = 0]

\* a due timer calls the fetchWeatherForecast of the render that armed it
TimerFires(t) ==
    /\ t \in timers
    /\ now >= t.deadline
    /\ timers' = timers \ {t}
    /\ FetchWeatherForecast(t.location, t.targetDate, t.variables, t.id)
    /\ UNCHANGED <<targetDate, location, variables, timeSeriesData, effectTimer,
                   now, serial, engineVars, utilVars>>

\* fetchWeatherForecast of the current render called by something other than
\* the timer, while an input is missing
CallFetchWeatherForecast ==
    /\ audit.refused < MaxCalls
    /\ ~InputsPresent(location, targetDate, variables)
    /\ FetchWeatherForecast(location, targetDate, variables, 0)
    /\ UNCHANGED <<targetDate, location, variables, timeSeriesData, timers,
                   effectTimer, now, serial, engineVars, utilVars>>

\* what the provider answers: a parameter mapping, or one of the failures
\*   networkError  fetch rejects
\*   httpError     response.ok is false
\*   noProperties  the JSON has no properties: data.properties.parameter throws
\*   noParameter   properties has no parameter: historical is undefined
ResponseKinds == {"ok", "networkError", "httpError", "noProperties", "noParameter"}

\* the line of the try block that is reached: generateForecast is called once
\* const historical has been bound, also when it is undefined (Object.keys of
\* undefined then throws inside generateForecast)
CoreCalled(kind) == kind \in {"ok", "noParameter"}

\* data.properties.parameter of a successful answer: one December observation
\* for each requested param
ServerData(request) ==
    [param \in {weatherVars[request.variables[i]] :
                    i \in DOMAIN request.variables} |->
        [key \in {DateKey(2023, 12, 31)} |->
            IF param = "PRECTOTCORR" THEN Num(2) ELSE Num(-1)]]

\* the rest of fetchWeatherForecast once the awaited answer of request id is in
\* (lines 203-222)
Respond(id, kind) ==
    /\ id \in DOMAIN requests
    /\ requests[id].status = "pending"
    /\ IF kind = "ok"
       THEN LET request == requests[id]
                historical == ServerData(request)
            IN  /\ forecast' = Some(generateForecast(historical,
                                        request.targetDate, tzOffset))
                /\ timeSeriesData' = Some(generateTimeSeriesData(historical,
                                              request.targetDate, tzOffset))
                /\ requests' = [requests EXCEPT ![id].status = "succeeded",
                                                ![id].toast = "success",
                                                ![id].coreCalled = TRUE]
                /\ audit' = [audit EXCEPT !.forecastFrom = id, !.trendFrom = id]
       ELSE \* catch: console.error, toast.error
            /\ requests' = [requests EXCEPT ![id].status = "failed",
                                            ![id].toast = "error",
                                            ![id].coreCalled = CoreCalled(kind)]
            /\ UNCHANGED <<forecast, timeSeriesData, audit>>
    /\ loading' = FALSE      \* finally
    /\ UNCHANGED <<targetDate, location, variables, timers, effectTimer, now,
                   serial, engineVars, utilVars>>

InitApp ==
    /\ AppInitial
    /\ UtilInitial
    /\ targetDate = <<>>
    /\ historicalData = [param \in Params |-> <<>>]
    /\ tzOffset = 0
    /\ predictions = <<>>
    /\ seasonalData = [param \in Params |-> <<>>]
    /\ pc = "ready"
    /\ dMean = Num(0)
    /\ dStdDev = Num(0)
    /\ dSamples = NoArg
    /\ dResult = <<>>
    /\ timeSeries = <<>>

NextApp ==
    \/ \E place \in Places : SetLocation(place)
    \/ \E date \in AppDates : SetTargetDate(date)
    \/ \E id \in DOMAIN weatherVars : ToggleVariable(id)
    \/ Tick
    \/ \E t \in timers : TimerFires(t)
    \/ \E id \in DOMAIN requests : \E kind \in ResponseKinds : Respond(id, kind)

SpecApp == InitApp /\ [][NextApp]_vars

\* the component with fetchWeatherForecast also called outside the timer
NextGuard == NextApp \/ CallFetchWeatherForecast

SpecGuard == InitApp /\ [][NextGuard]_vars

(***************************************************************************)
(* The helpers around the engine: the request's date range                 *)
(***************************************************************************)
\* the engine untouched, for the specifications of the helpers
EngineIdle ==
    /\ historicalData = [param \in Params |-> <<>>]
    /\ tzOffset = 0
    /\ predictions = <<>>
    /\ seasonalData = [param \in Params |-> <<>>]
    /\ pc = "ready"
    /\ dMean = Num(0)
    /\ dStdDev = Num(0)
    /\ dSamples = NoArg
    /\ dResult = <<>>
    /\ timeSeries = <<>>

\* String(n) of a non-negative integer, as a template literal inserts it
RECURSIVE DecimalString(_)
DecimalString(n) ==
    IF n < 10 THEN <<Chr(n)>>
    ELSE DecimalString(n \div 10) \o <<Chr(n % 10)>>

\* variant: the current year as the last year
EndYearCurrent(year) == year

\* const endYear = new Date().getFullYear() - 1
EndYear(year) == year - 1

\* const startYear = endYear - 4;
\* const startDate = `${startYear}0101`; const endDate = `${endYear}1231`
RequestRange(year) ==
    LET endYear == EndYear(year)
        startYear == endYear - 4
    IN  [start |-> DecimalString(startYear) \o <<"0", "1", "0", "1">>,
         end |-> DecimalString(endYear) \o <<"1", "2", "3", "1">>]

\* the years a host clock may show
FirstYear == 1970
Years == FirstYear..(FirstYear + MaxYearsAhead)

InitRange ==
    /\ EngineIdle
    /\ targetDate = <<>>
    /\ AppInitial
    /\ currentYear \in Years
    /\ requestRange = <<>>
    /\ rows = <<>>
    /\ csvContent = null
    /\ exportToast = "none"
    /\ StatusInitial

\* the lines of fetchWeatherForecast that build the range of the URL
BuildRange ==
    /\ pc = "ready"
    /\ requestRange' = RequestRange(currentYear)
    /\ pc' = "done"
    /\ UNCHANGED <<targetDate, historicalData, tzOffset, predictions,
                   seasonalData, dMean, dStdDev, dSamples, dResult, timeSeries,
                   currentYear, rows, csvContent, exportToast, statusVars>>
    /\ UNCHANGED appVars

NextRange == BuildRange

SpecRange == InitRange /\ [][NextRange]_vars

(***************************************************************************)
(* Text: a string of the program is a sequence of one-character strings    *)
(***************************************************************************)
Chars(s) == [i \in 1..Len(s) |-> SubSeq(s, i, i)]

\* cellStr.includes(ch)
StrIncludes(str, ch) == \E i \in DOMAIN str : str[i] = ch

\* cellStr.replace(/"/g, '""')
RECURSIVE DoubleQuotes(_)
DoubleQuotes(str) ==
    IF Len(str) = 0 THEN <<>>
    ELSE (IF Head(str) = "\"" THEN <<"\"", "\"">> ELSE <<Head(str)>>)
         \o DoubleQuotes(Tail(str))

\* variant: a cell is quoted only for a comma or a newline
CsvCellUnlessQuote(cellStr) ==
    IF StrIncludes(cellStr, ",") \/ StrIncludes(cellStr, "\n")
    THEN <<"\"">> \o DoubleQuotes(cellStr) \o <<"\"">>
    ELSE cellStr

\* the callback of row.map: quote a cell that holds a comma, a quote or a
\* newline (lines 345-349)
CsvCell(cellStr) ==
    IF StrIncludes(cellStr, ",") \/ StrIncludes(cellStr, "\"")
       \/ StrIncludes(cellStr, "\n")
    THEN <<"\"">> \o DoubleQuotes(cellStr) \o <<"\"">>
    ELSE cellStr

\* Array.prototype.join(sep) of an array of strings
RECURSIVE Join(_, _)
Join(strs, sep) ==
    IF Len(strs) = 0 THEN <<>>
    ELSE IF Len(strs) = 1 THEN strs[1]
    ELSE strs[1] \o sep \o Join(Tail(strs), sep)

\* rows.map(row => row.map(cell => ...).join(',')).join('\n')
CsvContent(rowArray) ==
    Join([r \in DOMAIN rowArray |->
             Join([c \in DOMAIN rowArray[r] |-> CsvCell(rowArray[r][c])], <<",">>)],
         <<"\n">>)

(***************************************************************************)
(* downloadCSV                                                             *)
(***************************************************************************)
RECURSIVE Pow10(_)
Pow10(k) == IF k = 0 THEN 1 ELSE 10 * Pow10(k - 1)

\* str.padStart(len, "0")
RECURSIVE PadZeros(_, _)
PadZeros(str, len) ==
    IF Len(str) >= len THEN str ELSE PadZeros(<<"0">> \o str, len)

\* variant: the digits beyond the last one are cut off
toFixedTruncating(x, digits) ==
    IF x.k = "NaN" THEN Chars("NaN")
    ELSE IF x.k = "Inf" THEN Chars("Infinity")
    ELSE IF x.k = "NegInf" THEN Chars("-Infinity")
    ELSE LET scale == Pow10(digits)
             n == (IAbs(x.a.n) * scale) \div x.a.d
             text == DecimalString(n \div scale) \o
                     (IF digits > 0
                      THEN <<".">> \o PadZeros(DecimalString(n % scale), digits)
                      ELSE <<>>)
         IN  IF x.a.n < 0 THEN <<"-">> \o text ELSE text

\* Number.prototype.toFixed(digits): the nearest multiple of 10^-digits, the
\* larger in magnitude of two equally near, after the sign. The numbers that
\* are exported are rational (the field a); none reaches 1e21.
toFixed(x, digits) ==
    IF x.k = "NaN" THEN Chars("NaN")
    ELSE IF x.k = "Inf" THEN Chars("Infinity")
    ELSE IF x.k = "NegInf" THEN Chars("-Infinity")
    ELSE LET scale == Pow10(digits)
             n == (2 * IAbs(x.a.n) * scale + x.a.d) \div (2 * x.a.d)
             text == DecimalString(n \div scale) \o
                     (IF digits > 0
                      THEN <<".">> \o PadZeros(DecimalString(n % scale), digits)
                      ELSE <<>>)
         IN  IF x.a.n < 0 THEN <<"-">> \o text ELSE text

\* the rows of weatherVars that the model keeps: label of an id
VarLabels == [precipitation |-> "Rainfall", temperature |-> "Temperature"]

\* weatherVars.find(v => v.param === param)
getVarInfo(param) ==
    LET id == CHOOSE v \in DOMAIN weatherVars : weatherVars[v] = param
    IN  [id |-> id, label |-> Chars(VarLabels[id])]

\* units[param] || ""
getUnit(param) ==
    IF param = "PRECTOTCORR" THEN Chars("mm")
    ELSE IF param = "T2M" THEN Chars("°C")
    ELSE <<>>

\* the text of getDisplayStatus(varId, value)
getDisplayStatus(varId, value) ==
    IF varId = "precipitation" THEN
        IF JsLess(value, Num(1)) THEN Chars("Dry conditions - Good for outdoor activities")
        ELSE IF JsLess(value, Num(10)) THEN Chars("Light rainfall - Generally favorable")
        ELSE IF JsLess(value, Num(50)) THEN Chars("Wet conditions - Prepare for surface water")
        ELSE Chars("Heavy rain - Flooding risk, take precautions")
    ELSE IF varId = "temperature" THEN
        IF JsLess(value, Num(10)) THEN Chars("Cold - Winter clothing and heating needed")
        ELSE IF JsLess(value, Num(25)) THEN Chars("Comfortable - Pleasant for most activities")
        ELSE IF JsLess(value, Num(35)) THEN Chars("Hot - Stay hydrated and limit sun exposure")
        ELSE Chars("Extreme heat - Health risk, stay indoors")
    ELSE IF varId = "wind" THEN
        IF JsLess(value, Num(5)) THEN Chars("Calm - Ideal for all outdoor activities")
        ELSE IF JsLess(value, Num(10)) THEN Chars("Breezy - Minor precautions needed")
        ELSE IF JsLess(value, Num(20)) THEN Chars("Strong winds - Secure loose objects")
        ELSE Chars("Dangerous winds - Stay indoors if possible")
    ELSE IF varId = "humidity" THEN
        IF JsLess(value, Num(30)) THEN Chars("Dry air - May cause discomfort, fire risk")
        ELSE IF JsLess(value, Num(60)) THEN Chars("Comfortable - Ideal moisture levels")
        ELSE IF JsLess(value, Num(80)) THEN Chars("Muggy - Uncomfortable, mold risk increases")
        ELSE Chars("Very humid - Oppressive conditions, health concerns")
    ELSE IF varId = "pressure" THEN
        IF JsLess(value, Num(980)) THEN Chars("Low pressure - Storms possible, monitor weather")
        ELSE IF JsLess(value, Num(1020)) THEN Chars("Normal pressure - Stable weather expected")
        ELSE Chars("High pressure - Clear, stable conditions")
    ELSE Chars("Conditions require interpretation")

\* e.latlng of a place
LatLng(place) == [lat |-> Rat(R(21, 2)), lng |-> Rat(R(305, 4))]

\* new Date().toISOString() at the time of the export
ReportGenerated == Chars("2026-01-01T00:00:00.000Z")

CsvHeader ==
    <<Chars("Variable"), Chars("Parameter Code"), Chars("Predicted Value"),
      Chars("Unit"), Chars("Confidence (%)"), Chars("Range Min"),
      Chars("Range Max"), Chars("Standard Deviation"), Chars("Samples Used"),
      Chars("Status"), Chars("Location Lat"), Chars("Location Lng"),
      Chars("Target Date"), Chars("Report Generated"), Chars("Data Source"),
      Chars("Source URL")>>

\* the array pushed for one entry of forecast (lines 322-339); String(cell) of
\* data.samples is its decimal text
CsvRow(param, data, loc, date) ==
    LET varInfo == getVarInfo(param)
    IN  <<varInfo.label,
          Chars(param),
          toFixed(data.value, 4),
          getUnit(param),
          toFixed(data.confidence, 2),
          toFixed(data.range.min, 4),
          toFixed(data.range.max, 4),
          toFixed(data.stdDev, 4),
          DecimalString(data.samples),
          getDisplayStatus(varInfo.id, data.value),
          toFixed(LatLng(loc.value).lat, 6),
          toFixed(LatLng(loc.value).lng, 6),
          date,
          ReportGenerated,
          Chars("NASA POWER API"),
          Chars("https://power.larc.nasa.gov/")>>

\* the keys of forecast as Object.entries gives them: in the order the
\* provider lists the params, taken here as the order of ParamOrder
ParamOrder == <<"PRECTOTCORR", "T2M">>

RECURSIVE ForecastKeys(_, _)
ForecastKeys(mapping, order) ==
    IF Len(order) = 0 THEN <<>>
    ELSE (IF Head(order) \in DOMAIN mapping THEN <<Head(order)>> ELSE <<>>)
         \o ForecastKeys(mapping, Tail(order))

\* const rows: the header, then one array per entry of forecast
CsvRows(mapping, loc, date) ==
    LET keys == ForecastKeys(mapping, ParamOrder)
    IN  <<CsvHeader>> \o
        [i \in DOMAIN keys |-> CsvRow(keys[i], mapping[keys[i]], loc, date)]

\* downloadCSV, up to the text handed to the Blob; at most one export in a run
DownloadCSV ==
    /\ exportToast = "none"
    /\ IF forecast = null \/ location = null \/ Len(targetDate) = 0
       THEN \* toast.error("No forecast data to download"); return
            /\ exportToast' = "error"
            /\ UNCHANGED <<rows, csvContent>>
       ELSE /\ rows' = CsvRows(forecast.value, location, targetDate)
            /\ csvContent' = Some(CsvContent(rows'))
            /\ exportToast' = "success"
    /\ UNCHANGED <<targetDate, engineVars, appVars, currentYear, requestRange,
                   statusVars>>

\* the conversion of lines 343-351 applied to rows that are given
ConvertRows ==
    /\ exportToast = "none"
    /\ rows # <<>>
    /\ csvContent' = Some(CsvContent(rows))
    /\ exportToast' = "converted"
    /\ UNCHANGED <<targetDate, engineVars, appVars, currentYear, requestRange,
                   rows, statusVars>>

\* a Prediction with the given value and spread, built as generateForecast
\* builds it
PredictionOf(value, stdDev, samples) ==
    [value |-> value,
     confidence |-> Confidence(stdDev, value),
     range |-> Range(value, stdDev),
     stdDev |-> stdDev,
     samples |-> samples,
     distribution |-> generateNormalDistribution(value, stdDev, DefaultSamples)]

\* Predictions to export: values on both sides of the status thresholds, with
\* decimals that round down, up and at the half, and a Prediction of NaN
CsvPredictions ==
    {PredictionOf(Rat(R(v[1], v[2])), Rat(R(s, 2)), 3) :
        v \in {<<0, 1>>, <<1, 3>>, <<2, 3>>, <<-1, 20000>>, <<60, 1>>},
        s \in {0, 1}}
    \cup {PredictionOf(NaN, NaN, 1)}

CsvForecasts ==
    UNION {[ps -> CsvPredictions] : ps \in SUBSET Params}

\* strings of up to MaxCellLen characters, ordinary and special
RECURSIVE CellStrings(_)
CellStrings(len) ==
    IF len = 0 THEN {<<>>}
    ELSE LET shorter == CellStrings(len - 1)
         IN  shorter \cup {Append(s, ch) : s \in shorter,
                                            ch \in {"a", ",", "\"", "\n"}}

\* the component showing the results of a finished request, no timer pending
AppShowing(place, mapping) ==
    /\ location = [isNull |-> FALSE, value |-> place, object |-> 1]
    /\ variables = <<"precipitation">>
    /\ forecast = Some(mapping)
    /\ loading = FALSE
    /\ timeSeriesData =
          Some([param \in Params |->
                   IF param \in DOMAIN mapping
                   THEN <<[year |-> 2023, value |-> mapping[param].value]>>
                   ELSE <<>>])
    /\ timers = {}
    /\ effectTimer = 0
    /\ requests = <<>>
    /\ now = 0
    /\ serial = 0
    /\ audit = [changedAt |-> 0, cancelled |-> 0, forecastFrom |-> 0,
                trendFrom |-> 0, refused |-> 0]

\* either a forecast on display and nothing converted yet, or no forecast and
\* two rows of two arbitrary cells to convert
InitCsv ==
    /\ EngineIdle
    /\ StatusInitial
    /\ currentYear = 0
    /\ requestRange = <<>>
    /\ csvContent = null
    /\ exportToast = "none"
    /\ \/ /\ \E place \in Places : \E mapping \in CsvForecasts :
                AppShowing(place, mapping)
          /\ targetDate \in AppDates
          /\ rows = <<>>
       \/ /\ AppInitial
          /\ targetDate = <<>>
          /\ \E c1 \in CellStrings(MaxCellLen) : \E c2 \in CellStrings(MaxCellLen) :
                rows = <<<<c1, c2>>, <<c2, c1>>>>

NextCsv == DownloadCSV \/ ConvertRows

SpecCsv == InitCsv /\ [][NextCsv]_vars

\* the component with its CSV export button
NextExport == NextApp \/ DownloadCSV

SpecExport == InitApp /\ [][NextExport]_vars

(***************************************************************************)
(* The status texts: getDisplayStatus of the page and the exports, and     *)
(* getWeatherStatus of the PDF                                             *)
(***************************************************************************)
\* variant: the PDF's status does not know the wind
getWeatherStatusWithoutWind(varId, value) ==
    IF varId = "wind" THEN Chars("Conditions require interpretation")
    ELSE getDisplayStatus(varId, value)

\* the status field of getWeatherStatus(varId, value)
getWeatherStatus(varId, value) ==
    IF varId = "precipitation" THEN
        IF JsLess(value, Num(1)) THEN Chars("Dry conditions - Good for outdoor activities")
        ELSE IF JsLess(value, Num(10)) THEN Chars("Light rainfall - Generally favorable")
        ELSE IF JsLess(value, Num(50)) THEN Chars("Wet conditions - Prepare for surface water")
        ELSE Chars("Heavy rain - Flooding risk, take precautions")
    ELSE IF varId = "temperature" THEN
        IF JsLess(value, Num(10)) THEN Chars("Cold - Winter clothing and heating needed")
        ELSE IF JsLess(value, Num(25)) THEN Chars("Comfortable - Pleasant for most activities")
        ELSE IF JsLess(value, Num(35)) THEN Chars("Hot - Stay hydrated and limit sun exposure")
        ELSE Chars("Extreme heat - Health risk, stay indoors")
    ELSE IF varId = "wind" THEN
        IF JsLess(value, Num(5)) THEN Chars("Calm - Ideal for all outdoor activities")
        ELSE IF JsLess(value, Num(10)) THEN Chars("Breezy - Minor precautions needed")
        ELSE IF JsLess(value, Num(20)) THEN Chars("Strong winds - Secure loose objects")
        ELSE Chars("Dangerous winds - Stay indoors if possible")
    ELSE IF varId = "humidity" THEN
        IF JsLess(value, Num(30)) THEN Chars("Dry air - May cause discomfort, fire risk")
        ELSE IF JsLess(value, Num(60)) THEN Chars("Comfortable - Ideal moisture levels")
        ELSE IF JsLess(value, Num(80)) THEN Chars("Muggy - Uncomfortable, mold risk increases")
        ELSE Chars("Very humid - Oppressive conditions, health concerns")
    ELSE IF varId = "pressure" THEN
        IF JsLess(value, Num(980)) THEN Chars("Low pressure - Storms possible, monitor weather")
        ELSE IF JsLess(value, Num(1020)) THEN Chars("Normal pressure - Stable weather expected")
        ELSE Chars("High pressure - Clear, stable conditions")
    ELSE Chars("Conditions require interpretation")

\* the ids of weatherVars and one that no case of the switch names
StatusIds == {"precipitation", "temperature", "wind", "humidity", "pressure",
              "uv"}

\* the thresholds of the switch
Thresholds == {1, 5, 10, 20, 25, 30, 35, 50, 60, 80, 980, 1020}

\* values on each threshold, one below and one above it, and the values that
\* are no finite number
StatusValues ==
    {Num(t + d) : t \in Thresholds, d \in -1..1}
    \cup {Num(-3), Rat(R(1, 2)), NaN, Infinity, NegInfinity, Null}

InitStatus ==
    /\ EngineIdle
    /\ targetDate = <<>>
    /\ AppInitial
    /\ currentYear = 0
    /\ requestRange = <<>>
    /\ rows = <<>>
    /\ csvContent = null
    /\ exportToast = "none"
    /\ \E varId \in StatusIds : \E value \in StatusValues :
          statusInput = [varId |-> varId, value |-> value]
    /\ statusShown = <<>>

\* the page and the PDF compute the status of the same variable and value
ShowStatus ==
    /\ statusShown = <<>>
    /\ statusShown' =
          [display |-> getDisplayStatus(statusInput.varId, statusInput.value),
           weather |-> getWeatherStatus(statusInput.varId, statusInput.value)]
    /\ UNCHANGED <<targetDate, engineVars, appVars, currentYear, requestRange,
                   rows, csvContent, exportToast, statusInput>>

NextStatus == ShowStatus

SpecStatus == InitStatus /\ [][NextStatus]_vars

(***************************************************************************)
(* Reference definitions used by the properties: the seasonal window read  *)
(* directly off the date strings of the input                              *)
(***************************************************************************)

\* the Date that generateForecast holds as target
Target == TargetDateObject(targetDate, tzOffset)

WindowKeys(param) ==
    {key \in DOMAIN historicalData[param] :
        /\ ~isNaN(historicalData[param][key])
        /\ KeyMonth(key) = Target.m + 1
        /\ IAbs(KeyDay(key) - Target.d) <= 7}

\* number of windowed observations more recent than key
Rank(key, keys) ==
    Cardinality({other \in keys : DigitsValue(other) > DigitsValue(key)})

RECURSIVE SumWeightedValues(_, _, _)
SumWeightedValues(param, keys, all) ==
    IF keys = {} THEN Zero
    ELSE LET key == CHOOSE k \in keys : TRUE
         IN  RAdd(RMul(historicalData[param][key].a, R(1, Rank(key, all) + 1)),
                  SumWeightedValues(param, keys \ {key}, all))

RECURSIVE SumWeights(_, _)
SumWeights(keys, all) ==
    IF keys = {} THEN Zero
    ELSE LET key == CHOOSE k \in keys : TRUE
         IN  RAdd(R(1, Rank(key, all) + 1), SumWeights(keys \ {key}, all))

Done == pc = "done"

\* C1: every observation in a variable's seasonal window has the month of the
\* target date and a day of month at most 7 away from the target's day; an
\* observation of an adjacent month is never used
C1_WindowSameMonthWithin7Days ==
    Done =>
        \A param \in Params :
            \A i \in DOMAIN seasonalData[param] :
                LET key == seasonalData[param][i].key
                IN  /\ key \in DOMAIN historicalData[param]
                    /\ KeyMonth(key) = Target.m + 1
                    /\ IAbs(KeyDay(key) - Target.d) <= 7

\* target December 31, a January 31 observation present, a non-empty window
C1_Witness ==
    /\ Done
    /\ Target.m = 11 /\ Target.d = 31
    /\ DateKey(2023, 1, 31) \in DOMAIN historicalData["PRECTOTCORR"]
    /\ ~isNaN(historicalData["PRECTOTCORR"][DateKey(2023, 1, 31)])
    /\ Len(seasonalData["PRECTOTCORR"]) >= 1

\* C2: a Prediction is emitted for a variable exactly when its seasonal window
\* is not empty, and its samples field is the size of the window, at least 1
C2_EntryIffWindowNonEmpty ==
    Done =>
        \A param \in Params :
            LET count == Cardinality(WindowKeys(param))
            IN  /\ (param \in DOMAIN predictions) <=> (count > 0)
                /\ param \in DOMAIN predictions =>
                      /\ predictions[param].samples = count
                      /\ predictions[param].samples >= 1

\* one variable predicted, the other has observations but none in the window
C2_Witness ==
    /\ Done
    /\ "PRECTOTCORR" \in DOMAIN predictions
    /\ "T2M" \notin DOMAIN predictions
    /\ \E key \in DOMAIN historicalData["T2M"] :
          ~isNaN(historicalData["T2M"][key])

\* C3: the predicted value is the weighted mean of the window, the observation
\* with r more recent ones before it weighing 1/(r+1)
C3_ValueIsHarmonicWeightedMean ==
    Done =>
        \A param \in DOMAIN predictions :
            LET keys == WindowKeys(param)
            IN  predictions[param].value =
                    Rat(RDiv(SumWeightedValues(param, keys, keys),
                             SumWeights(keys, keys)))

\* a window of three observations whose newest and oldest values differ
C3_Witness ==
    /\ Done
    /\ \E param \in DOMAIN predictions :
          /\ Len(seasonalData[param]) >= 3
          /\ seasonalData[param][1].value # seasonalData[param][3].value

\* the years of a window, and whether the windowed values of a year all equal v
WindowYears(param) == {KeyYear(key) : key \in WindowKeys(param)}
YearKeys(param, year) == {key \in WindowKeys(param) : KeyYear(key) = year}
YearAll(param, year, v) ==
    \A key \in YearKeys(param, year) : historicalData[param][key] = v

StrictlyBetween(x, a, b) ==
    \/ JsLess(a, x) /\ JsLess(x, b)
    \/ JsLess(b, x) /\ JsLess(x, a)

CloserTo(x, b, a) == JsLess(MathAbs(JsSub(x, b)), MathAbs(JsSub(x, a)))

\* a window of exactly two years, the older all a, the more recent all b # a
TwoYearWindow(param, older, recent, a, b) ==
    /\ WindowYears(param) = {older, recent}
    /\ older < recent
    /\ YearAll(param, older, a)
    /\ YearAll(param, recent, b)
    /\ a # b

\* C4 as stated: with a window of two years, the older all a and the more
\* recent all b # a, the predicted value is strictly between a and b and
\* strictly closer to b
C4_Original_TwoYearsCloserToRecent ==
    Done =>
        \A param \in DOMAIN predictions :
            \A older \in WindowYears(param) : \A recent \in WindowYears(param) :
                \A a \in FiniteValues : \A b \in FiniteValues :
                    TwoYearWindow(param, older, recent, a, b) =>
                        /\ StrictlyBetween(predictions[param].value, a, b)
                        /\ CloserTo(predictions[param].value, b, a)

\* C4 amended: the value is strictly between a and b, and it is strictly
\* closer to b whenever the more recent year has at least as many windowed
\* observations as the older year
C4_TwoYearsCloserToRecentWhenNotFewer ==
    Done =>
        \A param \in DOMAIN predictions :
            \A older \in WindowYears(param) : \A recent \in WindowYears(param) :
                \A a \in FiniteValues : \A b \in FiniteValues :
                    TwoYearWindow(param, older, recent, a, b) =>
                        /\ StrictlyBetween(predictions[param].value, a, b)
                        /\ Cardinality(YearKeys(param, recent))
                              >= Cardinality(YearKeys(param, older))
                           => CloserTo(predictions[param].value, b, a)

\* two windowed observations in each of the two years, with different values
C4_Witness ==
    /\ Done
    /\ "PRECTOTCORR" \in DOMAIN predictions
    /\ Cardinality(YearKeys("PRECTOTCORR", 2022)) = 2
    /\ Cardinality(YearKeys("PRECTOTCORR", 2023)) = 2
    /\ TwoYearWindow("PRECTOTCORR", 2022, 2023, Num(-1), Num(2))

RECURSIVE SumSquaredDeviations(_, _, _)
SumSquaredDeviations(param, keys, mean) ==
    IF keys = {} THEN Zero
    ELSE LET key == CHOOSE k \in keys : TRUE
             dev == RSub(historicalData[param][key].a, mean)
         IN  RAdd(RMul(dev, dev), SumSquaredDeviations(param, keys \ {key}, mean))

\* C5: stdDev is not negative and its square is the unweighted population
\* variance of the windowed values around the predicted (weighted) value
C5_StdDevSquaredIsPopulationVariance ==
    Done =>
        \A param \in DOMAIN predictions :
            LET keys == WindowKeys(param)
                pred == predictions[param]
            IN  /\ IsFin(pred.stdDev)
                /\ Sign(pred.stdDev) >= 0
                /\ MathPow2(pred.stdDev) =
                      Rat(RDiv(SumSquaredDeviations(param, keys, pred.value.a),
                               RInt(Cardinality(keys))))

\* a window of several observations with an irrational standard deviation
C5_Witness ==
    /\ Done
    /\ \E param \in DOMAIN predictions :
          /\ predictions[param].samples >= 2
          /\ predictions[param].stdDev.b # Zero

\* C6: range.min = value - stdDev and range.max = value + stdDev, so
\* range.min <= value <= range.max and range.max - range.min = 2 * stdDev
C6_RangeIsValuePlusMinusStdDev ==
    Done =>
        \A param \in DOMAIN predictions :
            LET pred == predictions[param]
            IN  /\ JsAdd(pred.range.min, pred.stdDev) = pred.value
                /\ JsSub(pred.range.max, pred.stdDev) = pred.value
                /\ JsLeq(pred.range.min, pred.value)
                /\ JsLeq(pred.value, pred.range.max)
                /\ JsSub(pred.range.max, pred.range.min)
                      = JsMul(Num(2), pred.stdDev)

\* a prediction with a positive standard deviation
C6_Witness ==
    /\ Done
    /\ \E param \in DOMAIN predictions :
          /\ Sign(predictions[param].stdDev) > 0
          /\ JsLess(predictions[param].range.min, predictions[param].range.max)

Clamp(x, lo, hi) == IF JsLess(x, lo) THEN lo ELSE IF JsLess(hi, x) THEN hi ELSE x

\* C7: for a finite nonzero value, confidence is 100 - (stdDev / |value|) * 50
\* clamped into [0, 100]: 100 when stdDev = 0, 0 when stdDev >= 2 * |value|
C7_ConfidenceClamped ==
    Done =>
        \A param \in DOMAIN predictions :
            LET pred == predictions[param]
                ratio == JsDiv(pred.stdDev, MathAbs(pred.value))
            IN  IsFin(pred.value) /\ Sign(pred.value) # 0 =>
                    /\ pred.confidence
                          = Clamp(JsSub(Num(100), JsMul(Num(50), ratio)),
                                  Num(0), Num(100))
                    /\ JsLeq(Num(0), pred.confidence)
                    /\ JsLeq(pred.confidence, Num(100))
                    /\ pred.stdDev = Num(0) => pred.confidence = Num(100)
                    /\ JsLeq(JsMul(Num(2), MathAbs(pred.value)), pred.stdDev)
                          => pred.confidence = Num(0)

\* a nonzero value whose standard deviation exceeds twice its magnitude
C7_Witness ==
    /\ Done
    /\ \E param \in DOMAIN predictions :
          /\ Sign(predictions[param].value) # 0
          /\ JsLess(JsMul(Num(2), MathAbs(predictions[param].value)),
                    predictions[param].stdDev)

\* all windowed values of param equal c
WindowAll(param, c) ==
    \A key \in WindowKeys(param) : historicalData[param][key] = c

\* C8 as stated: when all windowed values equal c (c = 0 included), value = c,
\* stdDev = 0, range.min = range.max = c and confidence = 100
C8_ConstantWindowFullConfidence ==
    Done =>
        \A param \in DOMAIN predictions :
            \A c \in FiniteValues :
                WindowAll(param, c) =>
                    /\ predictions[param].value = c
                    /\ predictions[param].stdDev = Num(0)
                    /\ predictions[param].range.min = c
                    /\ predictions[param].range.max = c
                    /\ predictions[param].confidence = Num(100)

\* C9: a predicted value of exactly 0 with stdDev > 0 has confidence 0
C9_ZeroMeanZeroConfidence ==
    Done =>
        \A param \in DOMAIN predictions :
            /\ predictions[param].value = Num(0)
            /\ JsLess(Num(0), predictions[param].stdDev)
            => predictions[param].confidence = Num(0)

\* windowed values of opposite sign that cancel in the weighted mean
C9_Witness ==
    /\ Done
    /\ \E param \in DOMAIN predictions :
          /\ predictions[param].value = Num(0)
          /\ JsLess(Num(0), predictions[param].stdDev)
          /\ \E key \in WindowKeys(param) : historicalData[param][key] = Num(-1)

\* the sample count a call uses
SamplesUsed == IF dSamples.given THEN dSamples.n ELSE DefaultSamples

\* C10: for stdDev > 0 and n >= 1 samples (50 when omitted) the result has n
\* points whose values start at mean - 2*stdDev, ascend strictly by the
\* constant step 4*stdDev/n and end at mean + 2*stdDev - step, all of them
\* in [mean - 2*stdDev, mean + 2*stdDev]
C10_DistributionGrid ==
    Done /\ Sign(dStdDev) > 0 /\ SamplesUsed >= 1 =>
        LET n == SamplesUsed
            step == RDiv(RMul(RInt(4), dStdDev.a), RInt(n))
            lo == RSub(dMean.a, RMul(RInt(2), dStdDev.a))
            hi == RAdd(dMean.a, RMul(RInt(2), dStdDev.a))
        IN  /\ Len(dResult) = n
            /\ dResult[1].value = Rat(lo)
            /\ dResult[n].value = Rat(RSub(hi, step))
            /\ \A i \in 1..(n - 1) :
                  /\ JsLess(dResult[i].value, dResult[i + 1].value)
                  /\ JsSub(dResult[i + 1].value, dResult[i].value) = Rat(step)
            /\ \A i \in 1..n :
                  /\ JsLeq(Rat(lo), dResult[i].value)
                  /\ JsLeq(dResult[i].value, Rat(hi))

\* a call without a sample count, with a positive stdDev
C10_Witness ==
    /\ Done
    /\ ~dSamples.given
    /\ Sign(dStdDev) > 0
    /\ Len(dResult) = 50


\* C11 as stated: with stdDev = 0 every point of the distribution carries a
\* finite probability (no NaN)
C11_ZeroStdDevFiniteProbabilities ==
    Done /\ dStdDev = Num(0) =>
        \A i \in DOMAIN dResult :
            /\ dResult[i].value = dMean
            /\ dResult[i].probability.k = "density"


\* the valid observations of the target's month, read off the date strings
MonthKeys(param) ==
    {key \in DOMAIN historicalData[param] :
        /\ ~isNaN(historicalData[param][key])
        /\ KeyMonth(key) = Target.m + 1}

MonthYears(param) == {KeyYear(key) : key \in MonthKeys(param)}

MonthYearKeys(param, year) ==
    {key \in MonthKeys(param) : KeyYear(key) = year}

RECURSIVE SumValues(_, _)
SumValues(param, keys) ==
    IF keys = {} THEN Zero
    ELSE LET key == CHOOSE k \in keys : TRUE
         IN  RAdd(historicalData[param][key].a, SumValues(param, keys \ {key}))

\* C12: for every variable the trend holds exactly one point per year that has
\* a valid observation in the target's month, its value the arithmetic mean of
\* all of that year's valid observations of that month; no other year appears
C12_OnePointPerYearWithMonthlyMean ==
    Done =>
        \A param \in Params :
            LET points == timeSeries[param]
            IN  /\ Len(points) = Cardinality(MonthYears(param))
                /\ {points[i].year : i \in DOMAIN points} = MonthYears(param)
                /\ \A i \in DOMAIN points :
                      LET keys == MonthYearKeys(param, points[i].year)
                      IN  points[i].value =
                              Rat(RDiv(SumValues(param, keys),
                                       RInt(Cardinality(keys))))

\* December 23 (outside the +/-7-day window of the target) and December 31 of
\* 2022 carry different values and average into the one point of 2022, while
\* 2023 has only a January observation and no point
C12_Witness ==
    /\ Done
    /\ Target.m = 11 /\ Target.d = 31
    /\ DOMAIN historicalData["PRECTOTCORR"] =
          {DateKey(2022, 12, 23), DateKey(2022, 12, 31), DateKey(2023, 1, 31)}
    /\ LET series == historicalData["PRECTOTCORR"]
       IN  /\ \A key \in DOMAIN series : ~isNaN(series[key])
           /\ series[DateKey(2022, 12, 23)] # series[DateKey(2022, 12, 31)]
    /\ Len(timeSeries["PRECTOTCORR"]) = 1
    /\ timeSeries["PRECTOTCORR"][1].year = 2022


\* historical with every series but param's removed
OnlyParam(historical, param) ==
    [p \in DOMAIN historical \cap {param} |-> historical[p]]

\* what the two functions return for param: its Prediction, if any, and its
\* trend points
ResultFor(predicted, trend, param) ==
    [emitted |-> param \in DOMAIN predicted,
     prediction |-> IF param \in DOMAIN predicted THEN predicted[param] ELSE <<>>,
     trend |-> trend[param]]

\* C13: the Prediction and the trend of a variable are those the functions
\* return when every other variable's series is removed from the input, so any
\* two inputs that agree on the variable's series give it the same result; a
\* variable with an empty series has no Prediction and no trend point
C13_ResultDependsOnOwnSeriesOnly ==
    Done =>
        \A param \in DOMAIN historicalData :
            LET alone == OnlyParam(historicalData, param)
            IN  /\ ResultFor(predictions, timeSeries, param) =
                      ResultFor(generateForecast(alone, targetDate, tzOffset),
                                generateTimeSeriesData(alone, targetDate, tzOffset),
                                param)
                /\ DOMAIN historicalData[param] = {} =>
                      /\ param \notin DOMAIN predictions
                      /\ timeSeries[param] = <<>>

\* one variable has a Prediction and a trend point while the other variable
\* has a valid observation of the target's month of its own
C13_Witness ==
    /\ Done
    /\ \E param \in DOMAIN predictions : \E other \in Params \ {param} :
          /\ Len(timeSeries[param]) >= 1
          /\ MonthKeys(other) # {}


\* historical without the entries whose value is not a finite number
FiniteOnly(historical) ==
    [param \in DOMAIN historical |->
        [key \in {k \in DOMAIN historical[param] :
                     IsFin(historical[param][k])} |->
            historical[param][key]]]

\* C14 as stated: an entry whose value is not a finite number contributes to
\* no output, so every Prediction (samples, weighted mean, variance) and every
\* trend mean is the one computed from the finite-valued entries alone
C14_NonFiniteNeverContributes ==
    Done =>
        \A param \in DOMAIN historicalData :
            ResultFor(predictions, timeSeries, param) =
                LET finite == FiniteOnly(historicalData)
                IN  ResultFor(generateForecast(finite, targetDate, tzOffset),
                              generateTimeSeriesData(finite, targetDate, tzOffset),
                              param)


\* a YYYYMMDD string that denotes a day of the calendar
IsCalendarDate(key) ==
    /\ Len(key) = 8
    /\ AllDigits(key)
    /\ KeyMonth(key) \in 1..12
    /\ KeyDay(key) \in 1..DaysInMonth(KeyYear(key), KeyMonth(key) - 1)

\* historical without the entries whose date string denotes no calendar date
CalendarOnly(historical) ==
    [param \in DOMAIN historical |->
        [key \in {k \in DOMAIN historical[param] : IsCalendarDate(k)} |->
            historical[param][key]]]

\* C15 as stated: an entry whose date string denotes no calendar date is
\* discarded like a missing value, so every Prediction and every trend is the
\* one computed from the entries with a calendar date alone
C15_MalformedDatesDiscarded ==
    Done =>
        \A param \in DOMAIN historicalData :
            ResultFor(predictions, timeSeries, param) =
                LET dated == CalendarOnly(historicalData)
                IN  ResultFor(generateForecast(dated, targetDate, tzOffset),
                              generateTimeSeriesData(dated, targetDate, tzOffset),
                              param)


Pending == {id \in DOMAIN requests : requests[id].status = "pending"}
Latest == Len(requests)

\* C17 as stated: the answer of a superseded request never overwrites the
\* stored results, so a stored forecast is always that of the most recently
\* started request, and once no request is in flight and the most recent one
\* has succeeded, forecast and trends are both its results
C17_LatestRequestWins ==
    /\ audit.forecastFrom \in {0, Latest}
    /\ (Latest > 0 /\ Pending = {} /\ requests[Latest].status = "succeeded") =>
          /\ audit.forecastFrom = Latest
          /\ audit.trendFrom = Latest


\* C18: at most one recompute timer is pending, and it is the one armed by the
\* last input change, with the inputs and the time of that change; a fetch
\* starts only from the timer of the last change and at least 500 ms after it,
\* no two fetches start from the same change, and while the inputs are complete
\* and no fetch has started from the last change its timer is pending
C18_Debounce ==
    /\ Cardinality(timers) <= 1
    /\ \A t \in timers :
          /\ t.id = serial
          /\ t.deadline = audit.changedAt + DebounceMs
          /\ t.location = location
          /\ t.targetDate = targetDate
          /\ t.variables = variables
    /\ \A id \in DOMAIN requests :
          /\ requests[id].timer = requests[id].serialAt
          /\ requests[id].startedAt - requests[id].changedAt >= DebounceMs
          /\ \A other \in DOMAIN requests :
                requests[other].timer = requests[id].timer => other = id
    /\ (/\ InputsPresent(location, targetDate, variables)
        /\ \A id \in DOMAIN requests : requests[id].timer # serial)
          => \E t \in timers : t.id = serial

\* a burst: an input change cancelled the pending timer 250 ms after it was
\* armed, and the one fetch so far started from the later change
C18_Witness ==
    /\ Len(requests) = 1
    /\ audit.cancelled >= 1
    /\ requests[1].changedAt = TickMs
    /\ requests[1].timer = serial


\* C19 as stated: the stored predictions and the stored trends never come from
\* different requests; a request that starts discards both, so trends of an
\* earlier request never stay stored next to a discarded forecast
C19_ResultsReplacedTogether ==
    /\ audit.trendFrom = audit.forecastFrom
    /\ (forecast = null) = (timeSeriesData = null)


\* C20 as stated: when the fetch of a request fails, generateForecast and
\* generateTimeSeriesData are not called for it and an error notification is
\* issued; and once the failed request is the only one there has been, the
\* stored forecast is null and loading is false
C20_FailureSurfacedBeforeCore ==
    /\ \A id \in DOMAIN requests :
          requests[id].status = "failed" =>
              /\ ~requests[id].coreCalled
              /\ requests[id].toast = "error"
    /\ (Len(requests) = 1 /\ requests[1].status = "failed") =>
          /\ forecast = null
          /\ ~loading


\* the Prediction mapping that the answer to a request gives
ForecastOf(request) ==
    generateForecast(ServerData(request), request.targetDate, tzOffset)

\* C21 as stated: a fetch that succeeds with an empty Prediction mapping is
\* reported with a failure notification, not with the success notification
C21_EmptyForecastReportedAsFailure ==
    \A id \in DOMAIN requests :
        (requests[id].status = "succeeded"
         /\ DOMAIN ForecastOf(requests[id]) = {})
            => requests[id].toast = "error"


\* C22: in current year Y the request starts on January 1 of Y-5 and ends on
\* December 31 of Y-1, five calendar years in all
C22_RangeIsFiveCompletedYears ==
    Done =>
        /\ requestRange.start = DateKey(currentYear - 5, 1, 1)
        /\ requestRange.end = DateKey(currentYear - 1, 12, 31)
        /\ KeyYear(requestRange.end) - KeyYear(requestRange.start) + 1 = 5

\* the range built in a year whose range crosses a century
C22_Witness ==
    /\ Done
    /\ currentYear = 2003
    /\ KeyYear(requestRange.start) = 1998
    /\ KeyYear(requestRange.end) = 2002


Exported == exportToast # "none"


\* a reader of CSV text by the rules of RFC 4180: cells separated by commas,
\* rows by line breaks (LF or CRLF), a cell in double quotes holding commas,
\* line breaks and doubled quotes. A comma or line break separates when it is
\* outside quotes, that is when an even number of quote characters precede it
QuotesIn(text) == {j \in 1..Len(text) : text[j] = "\""}

Separators(text, ch) ==
    LET quotes == QuotesIn(text)
    IN  {i \in 1..Len(text) :
            /\ text[i] = ch
            /\ Cardinality({j \in quotes : j < i}) % 2 = 0}

\* the stretches <<first, last>> of lo..hi between the positions in seps
RECURSIVE Stretches(_, _, _)
Stretches(lo, hi, seps) ==
    LET inside == {p \in seps : lo <= p /\ p <= hi}
    IN  IF inside = {} THEN << <<lo, hi>> >>
        ELSE LET p == CHOOSE q \in inside : \A r \in inside : q <= r
             IN  << <<lo, p - 1>> >> \o Stretches(p + 1, hi, seps)

RECURSIVE UndoubleQuotes(_)
UndoubleQuotes(str) ==
    IF str = <<>> THEN <<>>
    ELSE IF Len(str) >= 2 /\ str[1] = "\"" /\ str[2] = "\""
    THEN <<"\"">> \o UndoubleQuotes(SubSeq(str, 3, Len(str)))
    ELSE <<Head(str)>> \o UndoubleQuotes(Tail(str))

Unquote(raw) ==
    IF Len(raw) >= 2 /\ raw[1] = "\"" /\ raw[Len(raw)] = "\""
    THEN UndoubleQuotes(SubSeq(raw, 2, Len(raw) - 1))
    ELSE raw

ParseCsv(text) ==
    LET commas == Separators(text, ",")
        lines == Stretches(1, Len(text), Separators(text, "\n"))
        LineEnd(l) == IF l[2] >= l[1] /\ text[l[2]] = "\r" THEN l[2] - 1 ELSE l[2]
        CellsOf(l) == Stretches(l[1], LineEnd(l), commas)
    IN  [r \in DOMAIN lines |->
            [c \in DOMAIN CellsOf(lines[r]) |->
                Unquote(SubSeq(text, CellsOf(lines[r])[c][1], CellsOf(lines[r])[c][2]))]]

\* the number a decimal cell denotes
ParseDecimal(str) ==
    IF str = Chars("NaN") THEN NaN
    ELSE IF str = Chars("Infinity") THEN Infinity
    ELSE IF str = Chars("-Infinity") THEN NegInfinity
    ELSE LET neg == Head(str) = "-"
             body == IF neg THEN Tail(str) ELSE str
             dot == CHOOSE i \in 1..(Len(body) + 1) :
                        IF StrIncludes(body, ".") THEN i <= Len(body) /\ body[i] = "."
                        ELSE i = Len(body) + 1
             frac == SubSeq(body, dot + 1, Len(body))
             mag == R(DigitsValue(SubSeq(body, 1, dot - 1)) * Pow10(Len(frac))
                      + DigitsValue(frac), Pow10(Len(frac)))
         IN  Rat(IF neg THEN RNeg(mag) ELSE mag)

\* p is x at the precision of the given number of decimals: a multiple of
\* 10^-digits nearest to x, the one away from zero of two equally near
IsRounded(p, x, digits) ==
    IF ~IsFin(x) THEN p = x
    ELSE /\ IsRational(p)
         /\ RMul(p.a, RInt(Pow10(digits))).d = 1
         /\ LET gap == RSub(p.a, x.a)
                dist == IF RSign(gap) < 0 THEN RNeg(gap) ELSE gap
                half == R(1, 2 * Pow10(digits))
            IN  /\ RLeq(dist, half)
                /\ dist = half => RSign(gap) = RSign(x.a)

\* C23: the CSV text holds the header row of 16 cells and then one row per
\* entry of the Prediction mapping, each of 16 cells when read by the rules of
\* RFC 4180; and rows of arbitrary cells, with commas, quotes and newlines in
\* them, are read back as as many rows of as many cells
C23_CsvShape ==
    csvContent # null =>
        LET read == ParseCsv(csvContent.value)
        IN  /\ Len(read) = Len(rows)
            /\ \A r \in DOMAIN read : Len(read[r]) = Len(rows[r])
            /\ exportToast = "success" =>
                  /\ Len(read) = 1 + Cardinality(DOMAIN forecast.value)
                  /\ read[1] = CsvHeader
                  /\ \A r \in DOMAIN read : Len(read[r]) = 16

\* an export of two Predictions, the status of the first holding a comma
C23_Witness ==
    /\ exportToast = "success"
    /\ DOMAIN forecast.value = Params
    /\ Len(rows) = 3
    /\ StrIncludes(rows[2][10], ",")
    /\ StrIncludes(csvContent.value, "\"")

\* C24: read back by the rules of RFC 4180, the CSV text gives for each
\* variable its value, range minimum and range maximum at 4 decimals and its
\* confidence at 2 decimals; and every cell that was written, whatever
\* characters it holds, is read back as the original string
C24_CsvRoundTrip ==
    csvContent # null =>
        LET read == ParseCsv(csvContent.value)
        IN  /\ read = rows
            /\ exportToast = "success" =>
                  LET keys == ForecastKeys(forecast.value, ParamOrder)
                  IN  \A i \in DOMAIN keys :
                        LET data == forecast.value[keys[i]]
                            cells == read[i + 1]
                        IN  /\ cells[2] = Chars(keys[i])
                            /\ IsRounded(ParseDecimal(cells[3]), data.value, 4)
                            /\ IsRounded(ParseDecimal(cells[5]), data.confidence, 2)
                            /\ IsRounded(ParseDecimal(cells[6]), data.range.min, 4)
                            /\ IsRounded(ParseDecimal(cells[7]), data.range.max, 4)

\* an export whose value is cut at the half (-0.00005) next to one that rounds
\* up (2/3), both with a spread
C24_Witness ==
    /\ exportToast = "success"
    /\ DOMAIN forecast.value = Params
    /\ forecast.value["PRECTOTCORR"].value = Rat(R(-1, 20000))
    /\ forecast.value["T2M"].value = Rat(R(2, 3))
    /\ forecast.value["T2M"].stdDev = Rat(R(1, 2))
    /\ rows[2][3] = Chars("-0.0001")
    /\ rows[3][3] = Chars("0.6667")


\* C25: a timer is armed only with a location, a date and at least one
\* variable; every request that is sent has all three; and a call of
\* fetchWeatherForecast without one of them, which shows the error
\* notification, sends nothing and leaves loading, forecast and the trend data
\* as they were
C25_NoRequestWithoutInputs ==
    /\ [](/\ \A t \in timers :
                t.location # null /\ t.targetDate # <<>> /\ t.variables # <<>>
          /\ \A id \in DOMAIN requests :
                /\ requests[id].location # null
                /\ requests[id].targetDate # <<>>
                /\ requests[id].variables # <<>>)
    /\ [][audit'.refused # audit.refused =>
             /\ location = null \/ targetDate = <<>> \/ variables = <<>>
             /\ UNCHANGED <<loading, forecast, timeSeriesData, requests>>]_vars

\* a call without a variable was turned down while a forecast of an earlier
\* request was on display
C25_Witness ==
    /\ audit.refused = 1
    /\ variables = <<>>
    /\ \E id \in DOMAIN requests : requests[id].status = "succeeded"
    /\ forecast # null
    /\ ~loading

\* the month (1..12) and the day written in the YYYY-MM-DD string
WrittenMonth == DigitsValue(substring(targetDate, 5, 7))
WrittenDay == DigitsValue(substring(targetDate, 8, 10))

\* C26: whatever the UTC offset of the host, the month and day that the engine
\* takes as target are those written in the YYYY-MM-DD string, and every
\* observation of a seasonal window has the written month: a first-of-month
\* date is never matched against the previous month
C26_TargetIsTheWrittenDay ==
    Done =>
        /\ Target.m + 1 = WrittenMonth
        /\ Target.d = WrittenDay
        /\ \A param \in Params :
              \A i \in DOMAIN seasonalData[param] :
                  KeyMonth(seasonalData[param][i].key) = WrittenMonth


\* C27: loading is true exactly while at least one request is in flight; the
\* completion of an older request does not clear it while a newer one is
\* pending
C27_LoadingWhilePending ==
    loading <=> \E id \in DOMAIN requests : requests[id].status = "pending"


\* C28: an export writes the target date and the location of the request
\* whose forecast it exports, also when it is made in the 500 ms after the
\* date or the location was changed
C28_ExportLabelsItsForecast ==
    [][(exportToast = "none" /\ exportToast' = "success") =>
          LET request == requests[audit.forecastFrom]
          IN  \A r \in 2..Len(rows') :
                /\ rows'[r][11] = toFixed(LatLng(request.location.value).lat, 6)
                /\ rows'[r][12] = toFixed(LatLng(request.location.value).lng, 6)
                /\ rows'[r][13] = request.targetDate]_vars


\* C29: for every variable id, one that no case names included, and every
\* value, the text of getDisplayStatus is the text of getWeatherStatus
C29_StatusTextsAgree ==
    statusShown # <<>> => statusShown.display = statusShown.weather

\* the texts of a wind of exactly 20 m/s, the first dangerous one
C29_Witness ==
    /\ statusShown # <<>>
    /\ statusInput = [varId |-> "wind", value |-> Num(20)]
    /\ statusShown.weather = Chars("Dangerous winds - Stay indoors if possible")


\* C30: for every seasonal window that is not empty, the Prediction's value
\* lies between the least and the greatest value of the window
C30_ValueWithinWindow ==
    Done =>
        \A param \in Params :
            WindowKeys(param) # {} =>
                /\ param \in DOMAIN predictions
                /\ \E key \in WindowKeys(param) :
                      JsLeq(historicalData[param][key], predictions[param].value)
                /\ \E key \in WindowKeys(param) :
                      JsLeq(predictions[param].value, historicalData[param][key])
                /\ \A key \in WindowKeys(param) :
                      (\A other \in WindowKeys(param) :
                          JsLeq(historicalData[param][key],
                                historicalData[param][other]))
                      => JsLeq(historicalData[param][key], predictions[param].value)

\* a window of the two values 2 (older) and -1 (newer) around December 31
C30_Witness ==
    /\ Done
    /\ WindowKeys("PRECTOTCORR") = {DateKey(2022, 12, 31), DateKey(2023, 12, 31)}
    /\ historicalData["PRECTOTCORR"][DateKey(2022, 12, 31)] = Num(2)
    /\ historicalData["PRECTOTCORR"][DateKey(2023, 12, 31)] = Num(-1)
    /\ predictions["PRECTOTCORR"].value = Num(0)

====
